---------------------------- MODULE Spec2Model ----------------------------
(***************************************************************************)
(* Model of the BARC roster bot: four slash commands (add, officeradd,     *)
(* tryoutadd, quotacheck) that read ranges of a spreadsheet and write      *)
(* back single cells in one batch per sheet.                               *)
(*                                                                         *)
(* The repository holds two versions of the program, src/index.js and      *)
(* src/unnamed/part_000.  They differ only in handleQuotaCheck; the        *)
(* variable `variant` says which of the two is running.                    *)
(*                                                                         *)
(* Strings are sequences of one-character strings, so that trim,           *)
(* toUpperCase, split, parseInt and Number are computed, not assumed.      *)
(***************************************************************************)
EXTENDS Integers, Sequences, FiniteSets, TLC

(***************************************************************************)
(* Characters and strings                                                  *)
(***************************************************************************)
Digits == <<"0", "1", "2", "3", "4", "5", "6", "7", "8", "9">>

LowerCase == <<"a", "b", "c", "d", "e", "f", "g", "h", "i", "j", "k", "l", "m",
               "n", "o", "p", "q", "r", "s", "t", "u", "v", "w", "x", "y", "z">>

UpperCase == <<"A", "B", "C", "D", "E", "F", "G", "H", "I", "J", "K", "L", "M",
               "N", "O", "P", "Q", "R", "S", "T", "U", "V", "W", "X", "Y", "Z">>

IsDigit(c) == \E d \in 1..10 : Digits[d] = c

DigitVal(c) == (CHOOSE d \in 1..10 : Digits[d] = c) - 1

IsSpace(c) == c = " "

\* String.prototype.toUpperCase on one character
UpperChar(c) ==
    IF \E k \in 1..26 : LowerCase[k] = c
    THEN UpperCase[CHOOSE k \in 1..26 : LowerCase[k] = c]
    ELSE c

toUpperCase(s) == [k \in 1..Len(s) |-> UpperChar(s[k])]

\* String.prototype.trim: drop the white space at both ends
RECURSIVE TrimLeft(_)
TrimLeft(s) == IF s # <<>> /\ IsSpace(Head(s)) THEN TrimLeft(Tail(s)) ELSE s

RECURSIVE TrimRight(_)
TrimRight(s) ==
    IF s # <<>> /\ IsSpace(s[Len(s)]) THEN TrimRight(SubSeq(s, 1, Len(s) - 1)) ELSE s

trim(s) == TrimRight(TrimLeft(s))

\* String.prototype.split(','): the pieces between the commas, in order
RECURSIVE SplitFrom(_, _)
SplitFrom(s, cur) ==
    IF s = <<>> THEN <<cur>>
    ELSE IF Head(s) = "," THEN <<cur>> \o SplitFrom(Tail(s), <<>>)
    ELSE SplitFrom(Tail(s), Append(cur, Head(s)))

split(s) == SplitFrom(s, <<>>)

NonEmptyStr(s) == Len(s) > 0

\* The longest prefix of s made of digits
RECURSIVE DigitPrefix(_)
DigitPrefix(s) ==
    IF s # <<>> /\ IsDigit(Head(s)) THEN <<Head(s)>> \o DigitPrefix(Tail(s)) ELSE <<>>

AllDigits(s) == \A k \in 1..Len(s) : IsDigit(s[k])

\* The value of a digit string in base 10 (0 for the empty string)
RECURSIVE DigitsVal(_)
DigitsVal(s) ==
    IF s = <<>> THEN 0 ELSE 10 * DigitsVal(SubSeq(s, 1, Len(s) - 1)) + DigitVal(s[Len(s)])

RECURSIVE Pow10(_)
Pow10(n) == IF n = 0 THEN 1 ELSE 10 * Pow10(n - 1)

\* The decimal digits of a natural number
RECURSIVE NatDigits(_)
NatDigits(n) ==
    IF n < 10 THEN <<Digits[n + 1]>> ELSE Append(NatDigits(n \div 10), Digits[(n % 10) + 1])

(***************************************************************************)
(* JavaScript values.  A value read from a row is a string or undefined;   *)
(* isChecked also accepts booleans.  Numbers are NaN or an exact decimal   *)
(* num/den with den a power of ten.                                        *)
(***************************************************************************)
Undefined == [t |-> "undefined", s |-> <<>>, b |-> FALSE]

Str(s) == [t |-> "string", s |-> s, b |-> FALSE]

Bool(b) == [t |-> "boolean", s |-> <<>>, b |-> b]

NaN == [nan |-> TRUE, num |-> 0, den |-> 1]

Num(n) == [nan |-> FALSE, num |-> n, den |-> 1]

Dec(n, d) == [nan |-> FALSE, num |-> n, den |-> d]

IsInteger(x) == ~x.nan /\ x.num % x.den = 0

\* x + 1 on numbers: NaN + 1 is NaN
PlusOne(x) == IF x.nan THEN NaN ELSE Dec(x.num + x.den, x.den)

\* x + n for an integer n
Plus(x, n) == IF x.nan THEN NaN ELSE Dec(x.num + n * x.den, x.den)

\* String(v)
String(v) ==
    CASE v.t = "string" -> v.s
      [] v.t = "boolean" -> IF v.b THEN <<"t", "r", "u", "e">> ELSE <<"f", "a", "l", "s", "e">>
      [] OTHER -> <<"u", "n", "d", "e", "f", "i", "n", "e", "d">>

\* JavaScript truthiness of a cell value
Truthy(v) ==
    CASE v.t = "string" -> Len(v.s) > 0
      [] v.t = "boolean" -> v.b
      [] OTHER -> FALSE


(***************************************************************************)
(* Coercions                                                               *)
(***************************************************************************)
\* parseInt(string): leading white space, an optional sign, then the longest
\* run of decimal digits; NaN when there is no digit
parseInt(s) ==
    LET t == TrimLeft(s)
        neg == t # <<>> /\ Head(t) = "-"
        u == IF t # <<>> /\ Head(t) \in {"-", "+"} THEN Tail(t) ELSE t
        ds == DigitPrefix(u)
    IN IF ds = <<>> THEN NaN
       ELSE Num(IF neg THEN 0 - DigitsVal(ds) ELSE DigitsVal(ds))

\* parseInt(cell || 0) || 0
parseIntOrZero(cell) ==
    LET p == IF Truthy(cell) THEN parseInt(String(cell)) ELSE Num(0)
    IN IF p.nan THEN Num(0) ELSE p

\* Number(string): white space trimmed at both ends, "" is 0, a signed
\* decimal literal is its value, anything else is NaN.  (The cell values of
\* this model hold no exponent, hexadecimal or Infinity literal.)
NumberOfString(s) ==
    LET t == trim(s)
        neg == t # <<>> /\ Head(t) = "-"
        u == IF t # <<>> /\ Head(t) \in {"-", "+"} THEN Tail(t) ELSE t
        ip == DigitPrefix(u)
        rest == SubSeq(u, Len(ip) + 1, Len(u))
        fp == IF rest # <<>> /\ Head(rest) = "." THEN Tail(rest) ELSE <<>>
        wellFormed == /\ rest = <<>> \/ Head(rest) = "."
                      /\ AllDigits(fp)
                      /\ Len(ip) + Len(fp) > 0
        mag == DigitsVal(ip) * Pow10(Len(fp)) + DigitsVal(fp)
    IN IF t = <<>> THEN Num(0)
       ELSE IF ~wellFormed THEN NaN
       ELSE Dec(IF neg THEN 0 - mag ELSE mag, Pow10(Len(fp)))

\* Number(cell || 0)
NumberOrZero(cell) == IF Truthy(cell) THEN NumberOfString(String(cell)) ELSE Num(0)

\* isChecked without the conversion to upper case
isCheckedExact(cell) ==
    \/ cell.t = "boolean" /\ cell.b
    \/ String(cell) = <<"T", "R", "U", "E">>

\* isChecked: cell === true || String(cell).toUpperCase() === 'TRUE'
isChecked(cell) ==
    \/ cell.t = "boolean" /\ cell.b
    \/ toUpperCase(String(cell)) = <<"T", "R", "U", "E">>

\* The text a cell shows after a number was written to it
RECURSIVE FracDigits(_, _)
FracDigits(r, den) ==
    IF r = 0 \/ den = 1 THEN <<>>
    ELSE <<Digits[((r * 10) \div den) + 1]>> \o FracDigits((r * 10) % den, den)

FormatNumber(x) ==
    LET mag == IF x.num < 0 THEN 0 - x.num ELSE x.num
        fd == FracDigits(mag % x.den, x.den)
    IN (IF x.num < 0 THEN <<"-">> ELSE <<>>)
       \o NatDigits(mag \div x.den)
       \o (IF fd = <<>> THEN <<>> ELSE <<".">> \o fd)

(***************************************************************************)
(* Configuration                                                           *)
(***************************************************************************)
\* How many of the configured sheets the model runs over
NumSheets == 2

AllSheets == <<"TROOPER_COMPANY", "TITAN_COMPANY", "META_SQUAD", "VANGUARD_COMPANY">>

SHEETS == SubSeq(AllSheets, 1, NumSheets)

SheetSet == {SHEETS[k] : k \in 1..Len(SHEETS)}

\* Column indexes used when reading a row array (A=0, B=1, ...)
COL == [A |-> 0, B |-> 1, C |-> 2, D |-> 3, E |-> 4, F |-> 5, G |-> 6, H |-> 7,
        I |-> 8, J |-> 9]

\* The row ranges the handlers read
AddFirstRow == 1

AddLastRow == 100

TopFirstRow == 7

TopLastRow == 13

QuotaFirstRow == 8

TryoutLastRow == 10

BottomFirstRow == 19

BottomLastRow == 40

VARIABLES
    variant,      \* which source file runs: "index" or "part_000"
    store,        \* the spreadsheet: per sheet, the non-empty cells
    pc,           \* where each invocation stands
    cmd,          \* each invocation's command name and options
    sheetIdx,     \* the position of an invocation's sheet loop in SHEETS
    topValues,    \* handleQuotaCheck's local topValues
    bottomValues, \* handleQuotaCheck's local bottomValues
    values,       \* the add handlers' local values
    updates,      \* the writes staged for the current sheet
    summary,      \* the summary lists collected so far
    interaction,  \* the reply state of each invocation
    calls,        \* the calls each invocation made to the spreadsheet
    served,       \* how many commands have arrived so far
    startStore,   \* the spreadsheet as it was when an invocation's command arrived
    store0,       \* the spreadsheet as it was at the start
    doneStore     \* the spreadsheet as it was when an invocation ended

vars == <<variant, store, pc, cmd, sheetIdx, topValues, bottomValues, values,
          updates, summary, interaction, calls, served, startStore, store0, doneStore>>

(***************************************************************************)
(* The spreadsheet service                                                 *)
(***************************************************************************)
Max(S) == CHOOSE m \in S : \A n \in S : n <= m

\* The text of one cell, "" when the cell is empty
CellAt(st, sheet, r, c) ==
    IF <<r, c>> \in DOMAIN st[sheet] THEN st[sheet][<<r, c>>] ELSE <<>>

\* spreadsheets.values.get: the rows of the range in order, each row cut
\* after its last non-empty cell and the grid cut after its last non-empty
\* row; `res.data.values || []` makes an empty range the empty grid
getValues(st, sheet, r1, r2, lastCol) ==
    LET rowLen(r) == Max({0} \cup {c + 1 : c \in {x \in 0..lastCol :
                                          CellAt(st, sheet, r, x) # <<>>}})
        nRows == Max({0} \cup {r - r1 + 1 : r \in {x \in r1..r2 : rowLen(x) > 0}})
    IN [k \in 1..nRows |->
          [j \in 1..rowLen(r1 + k - 1) |-> CellAt(st, sheet, r1 + k - 1, j - 1)]]

\* grid[idx] || []
RowAt(grid, idx) == IF idx + 1 <= Len(grid) THEN grid[idx + 1] ELSE <<>>

\* row[c]
At(row, c) == IF c + 1 <= Len(row) THEN Str(row[c + 1]) ELSE Undefined

\* (cell || '')
OrEmpty(cell) == IF Truthy(cell) THEN cell ELSE Str(<<>>)

\* One staged write { range: `${sheet}!${col}${row}`, values: [[value]] }
Update(sheet, col, row, value) ==
    [sheet |-> sheet, col |-> col, row |-> row, value |-> value]

\* One single-cell write with valueInputOption USER_ENTERED.  A NaN is sent
\* as null in the JSON body, and a null value leaves the cell as it is.
ApplyUpdate(st, u) ==
    IF u.value.nan THEN st
    ELSE [st EXCEPT ![u.sheet] =
            (<<u.row, COL[u.col]>> :> FormatNumber(u.value)) @@ st[u.sheet]]

\* spreadsheets.values.batchUpdate: the writes are applied in order
RECURSIVE ApplyUpdates(_, _)
ApplyUpdates(st, us) ==
    IF us = <<>> THEN st ELSE ApplyUpdates(ApplyUpdate(st, Head(us)), Tail(us))

(***************************************************************************)
(* handleQuotaCheck, per sheet                                             *)
(***************************************************************************)
\* fCurrent in src/index.js: parseInt(row[COL.F] || 0) || 0
fCurrentIndex(row) == parseIntOrZero(At(row, COL.F))

\* fCurrent in src/unnamed/part_000: Number(row[COL.F] || 0)
fCurrentPart000(row) == NumberOrZero(At(row, COL.F))

fCurrent(v, row) == IF v = "index" THEN fCurrentIndex(row) ELSE fCurrentPart000(row)

\* The column the loop over rows 7..10 resets: B in src/index.js
tryoutResetColumnIndex == "B"

\* ... and G in src/unnamed/part_000
tryoutResetColumnPart000 == "G"

tryoutResetColumn(v) ==
    IF v = "index" THEN tryoutResetColumnIndex ELSE tryoutResetColumnPart000

\* The identifier taken without trim(): a white-space cell counts as a name
nameCellOfUntrimmed(row) == String(OrEmpty(At(row, COL.B)))

\* (row[COL.B] || '').toString().trim()
nameCellOf(row) == trim(String(OrEmpty(At(row, COL.B))))

\* One summary entry { sheet, row, name, info }; info holds the numbers the
\* info text shows (`F=${fNew}`, `Total=${totalNew}, Weekly=${weeklyNew}`, ...)
Entry(sheet, row, name, info) ==
    [sheet |-> sheet, row |-> row, name |-> name, info |-> info]

NoStaged == [updates |-> <<>>, increments |-> <<>>]

\* Whether the top-block row is quota-evaluated: rows 8..13
topRowHasQuota(actualRow) == actualRow >= QuotaFirstRow /\ actualRow <= TopLastRow

\* One pass of the top-block loop body, for the row at index i
topBlockRow(v, sheetName, grid, i) ==
    LET actualRow == TopFirstRow + i
        row == RowAt(grid, i)
        nameCell == nameCellOf(row)
        jChecked == isChecked(At(row, COL.J))
        hChecked == isChecked(At(row, COL.H))
        fNew == PlusOne(fCurrent(v, row))
        inc == topRowHasQuota(actualRow) /\ ~jChecked /\ ~hChecked
    IN IF nameCell = <<>> THEN NoStaged
       ELSE [updates |->
               (IF inc THEN <<Update(sheetName, "F", actualRow, fNew)>> ELSE <<>>)
               \o <<Update(sheetName, "D", actualRow, Num(0)),
                    Update(sheetName, "E", actualRow, Num(0))>>,
             increments |->
               IF inc THEN <<Entry(sheetName, actualRow, nameCell, <<fNew>>)>> ELSE <<>>]

\* for (let i = 0; i < topValues.length; i++)
RECURSIVE topBlockLoop(_, _, _, _)
topBlockLoop(v, sheetName, grid, i) ==
    IF i >= Len(grid) THEN NoStaged
    ELSE LET here == topBlockRow(v, sheetName, grid, i)
             rest == topBlockLoop(v, sheetName, grid, i + 1)
         IN [updates |-> here.updates \o rest.updates,
             increments |-> here.increments \o rest.increments]

\* for (let r = 7; r <= 10; r++): the reset of rows 7..10
RECURSIVE tryoutResetLoop(_, _, _, _)
tryoutResetLoop(v, sheetName, grid, r) ==
    IF r > TryoutLastRow THEN <<>>
    ELSE (IF nameCellOf(RowAt(grid, r - TopFirstRow)) # <<>>
          THEN <<Update(sheetName, tryoutResetColumn(v), r, Num(0))>>
          ELSE <<>>)
         \o tryoutResetLoop(v, sheetName, grid, r + 1)

\* The bottom-block loop body with the reset of D moved into the increment
\* branch: a row that passed or is exempt keeps its D
bottomBlockRowResetIfIncremented(v, sheetName, grid, i) ==
    LET actualRow == BottomFirstRow + i
        row == RowAt(grid, i)
        nameCell == nameCellOf(row)
        fNew == PlusOne(fCurrent(v, row))
        inc == ~isChecked(At(row, COL.I)) /\ ~isChecked(At(row, COL.G))
    IN IF nameCell = <<>> \/ ~inc THEN NoStaged
       ELSE [updates |-> <<Update(sheetName, "F", actualRow, fNew),
                           Update(sheetName, "D", actualRow, Num(0))>>,
             increments |-> <<Entry(sheetName, actualRow, nameCell, <<fNew>>)>>]

\* One pass of the bottom-block loop body, for the row at index i
bottomBlockRow(v, sheetName, grid, i) ==
    LET actualRow == BottomFirstRow + i
        row == RowAt(grid, i)
        nameCell == nameCellOf(row)
        iChecked == isChecked(At(row, COL.I))
        gChecked == isChecked(At(row, COL.G))
        fNew == PlusOne(fCurrent(v, row))
        inc == ~iChecked /\ ~gChecked
    IN IF nameCell = <<>> THEN NoStaged
       ELSE [updates |->
               (IF inc THEN <<Update(sheetName, "F", actualRow, fNew)>> ELSE <<>>)
               \o <<Update(sheetName, "D", actualRow, Num(0))>>,
             increments |->
               IF inc THEN <<Entry(sheetName, actualRow, nameCell, <<fNew>>)>> ELSE <<>>]

\* The bottom-block loop run from the last row of the grid to the first
RECURSIVE bottomBlockLoopDescending(_, _, _, _)
bottomBlockLoopDescending(v, sheetName, grid, i) ==
    IF i >= Len(grid) THEN NoStaged
    ELSE LET here == bottomBlockRow(v, sheetName, grid, i)
             rest == bottomBlockLoopDescending(v, sheetName, grid, i + 1)
         IN [updates |-> rest.updates \o here.updates,
             increments |-> rest.increments \o here.increments]

\* for (let i = 0; i < bottomValues.length; i++)
RECURSIVE bottomBlockLoop(_, _, _, _)
bottomBlockLoop(v, sheetName, grid, i) ==
    IF i >= Len(grid) THEN NoStaged
    ELSE LET here == bottomBlockRow(v, sheetName, grid, i)
             rest == bottomBlockLoop(v, sheetName, grid, i + 1)
         IN [updates |-> here.updates \o rest.updates,
             increments |-> here.increments \o rest.increments]

(***************************************************************************)
(* handleAdd, handleOfficerAdd, handleTryoutAdd, per sheet                  *)
(***************************************************************************)
\* parseWords: String(input || '').split(',').map(trim).filter(nonempty)
parseWords(input) ==
    LET parts == split(input)
        trimmed == [k \in 1..Len(parts) |-> trim(parts[k])]
    IN SelectSeq(trimmed, NonEmptyStr)

\* The last match instead of the first
findLastIndex(grid, word) ==
    LET hits == {k \in 1..Len(grid) : At(grid[k], COL.B) = Str(word)}
    IN IF hits = {} THEN -1 ELSE (CHOOSE k \in hits : \A m \in hits : k >= m) - 1

\* values.findIndex(row => row[COL.B] === word): the first match, or -1
findIndex(grid, word) ==
    LET hits == {k \in 1..Len(grid) : At(grid[k], COL.B) = Str(word)}
    IN IF hits = {} THEN -1 ELSE (CHOOSE k \in hits : \A m \in hits : k <= m) - 1

\* The body of handleAdd's loop over the words, for one word
addWord(sheetName, grid, word, eventsToAdd) ==
    LET rowIndex == findIndex(grid, word)
        totalNew == Plus(parseIntOrZero(At(grid[rowIndex + 1], COL.C)), eventsToAdd)
        weeklyNew == Plus(parseIntOrZero(At(grid[rowIndex + 1], COL.D)), eventsToAdd)
        rowNumber == rowIndex + AddFirstRow
    IN IF rowIndex = -1 THEN NoStaged
       ELSE [updates |-> <<Update(sheetName, "C", rowNumber, totalNew),
                           Update(sheetName, "D", rowNumber, weeklyNew)>>,
             increments |-> <<Entry(sheetName, rowNumber, word, <<totalNew, weeklyNew>>)>>]

\* handleOfficerAdd writing the columns of handleAdd
officerAddWordTotals(sheetName, grid, word, eventsToAdd) ==
    LET rowIndex == findIndex(grid, word)
        rowNumber == rowIndex + TopFirstRow
        cNew == Plus(parseIntOrZero(At(grid[rowIndex + 1], COL.C)), eventsToAdd)
        dNew == Plus(parseIntOrZero(At(grid[rowIndex + 1], COL.D)), eventsToAdd)
    IN IF rowIndex = -1 THEN NoStaged
       ELSE [updates |-> <<Update(sheetName, "C", rowNumber, cNew),
                           Update(sheetName, "D", rowNumber, dNew)>>,
             increments |-> <<Entry(sheetName, rowNumber, word, <<cNew, dNew>>)>>]

\* The body of handleOfficerAdd's loop over the words, for one word
officerAddWord(sheetName, grid, word, eventsToAdd) ==
    LET rowIndex == findIndex(grid, word)
        rowNumber == rowIndex + TopFirstRow
        dNew == Plus(parseIntOrZero(At(grid[rowIndex + 1], COL.D)), eventsToAdd)
        eNew == Plus(parseIntOrZero(At(grid[rowIndex + 1], COL.E)), eventsToAdd)
    IN IF rowIndex = -1 THEN NoStaged
       ELSE [updates |-> <<Update(sheetName, "D", rowNumber, dNew),
                           Update(sheetName, "E", rowNumber, eNew)>>,
             increments |-> <<Entry(sheetName, rowNumber, word, <<dNew, eNew>>)>>]

\* The body of handleTryoutAdd's loop over the words, for one word
tryoutAddWord(sheetName, grid, word, tryoutsToAdd) ==
    LET rowIndex == findIndex(grid, word)
        rowNumber == rowIndex + TopFirstRow
        gNew == Plus(parseIntOrZero(At(grid[rowIndex + 1], COL.G)), tryoutsToAdd)
    IN IF rowIndex = -1 THEN NoStaged
       ELSE [updates |-> <<Update(sheetName, "G", rowNumber, gNew)>>,
             increments |-> <<Entry(sheetName, rowNumber, word, <<gNew>>)>>]

\* The loop over the words left at the first word that is not found
RECURSIVE wordsLoopStopAtMiss(_, _, _, _, _)
wordsLoopStopAtMiss(name, sheetName, grid, words, n) ==
    IF words = <<>> \/ findIndex(grid, Head(words)) = -1 THEN NoStaged
    ELSE LET w == Head(words)
             here == CASE name = "add" -> addWord(sheetName, grid, w, n)
                       [] name = "officeradd" -> officerAddWord(sheetName, grid, w, n)
                       [] OTHER -> tryoutAddWord(sheetName, grid, w, n)
             rest == wordsLoopStopAtMiss(name, sheetName, grid, Tail(words), n)
         IN [updates |-> here.updates \o rest.updates,
             increments |-> here.increments \o rest.increments]

\* The grid with one staged write entered in it; `first` is the row number
\* of the grid's first row
GridWith(grid, u, first) ==
    LET k == u.row - first + 1
        c == COL[u.col] + 1
        len == Max({Len(grid[k]), c})
    IN [grid EXCEPT ![k] = [j \in 1..len |->
                               IF j = c THEN FormatNumber(u.value)
                               ELSE IF j <= Len(grid[k]) THEN grid[k][j] ELSE <<>>]]

RECURSIVE GridWithAll(_, _, _)
GridWithAll(grid, us, first) ==
    IF us = <<>> THEN grid ELSE GridWithAll(GridWith(grid, Head(us), first), Tail(us), first)

\* The loop over the words with every word evaluated against the grid as
\* the writes staged for the words before it leave it
RECURSIVE wordsLoopOnStaged(_, _, _, _, _)
wordsLoopOnStaged(name, sheetName, grid, words, n) ==
    IF words = <<>> THEN NoStaged
    ELSE LET w == Head(words)
             here == CASE name = "add" -> addWord(sheetName, grid, w, n)
                       [] name = "officeradd" -> officerAddWord(sheetName, grid, w, n)
                       [] OTHER -> tryoutAddWord(sheetName, grid, w, n)
             first == IF name = "add" THEN AddFirstRow ELSE TopFirstRow
             rest == wordsLoopOnStaged(name, sheetName,
                                       GridWithAll(grid, here.updates, first), Tail(words), n)
         IN [updates |-> here.updates \o rest.updates,
             increments |-> here.increments \o rest.increments]

\* for (const word of words), for the handler of command `name`
RECURSIVE wordsLoop(_, _, _, _, _)
wordsLoop(name, sheetName, grid, words, n) ==
    IF words = <<>> THEN NoStaged
    ELSE LET w == Head(words)
             here == CASE name = "add" -> addWord(sheetName, grid, w, n)
                       [] name = "officeradd" -> officerAddWord(sheetName, grid, w, n)
                       [] OTHER -> tryoutAddWord(sheetName, grid, w, n)
             rest == wordsLoop(name, sheetName, grid, Tail(words), n)
         IN [updates |-> here.updates \o rest.updates,
             increments |-> here.increments \o rest.increments]

\* The range each add handler reads: <<first row, last row, last column>>
readRange(name) ==
    CASE name = "add" -> <<AddFirstRow, AddLastRow, COL.D>>
      [] name = "officeradd" -> <<TopFirstRow, TopLastRow, COL.E>>
      [] OTHER -> <<TopFirstRow, TryoutLastRow, COL.G>>

(***************************************************************************)
(* Invocations                                                             *)
(***************************************************************************)
\* How many command invocations a behaviour holds
NumInv == 2

Inv == 1..NumInv

NoSummary == [topIncrements |-> <<>>, bottomIncrements |-> <<>>,
              sheetsUpdated |-> <<>>, updatesSummary |-> <<>>]

NoCmd == [name |-> "", user |-> <<>>, n |-> 0]

\* A call to the chat platform: how the message is sent (deferReply, reply,
\* editReply), which text, the lists the text renders, and whether the call
\* succeeded
Message(via, kind, items, bottom, sheets) ==
    [via |-> via, kind |-> kind, items |-> items, bottom |-> bottom, sheets |-> sheets,
     ok |-> TRUE]

Failed(m) == [m EXCEPT !.ok = FALSE]

Acknowledgment == Message("deferReply", "thinking", <<>>, <<>>, <<>>)

UnknownCommand == Message("reply", "unknown", <<>>, <<>>, <<>>)

InternalError(via) == Message(via, "internalError", <<>>, <<>>, <<>>)

\* A call to the spreadsheet service, as logged in `calls`
GetCall(sheet, range, ok) ==
    [op |-> "get", sheet |-> sheet, range |-> range, data |-> <<>>, ok |-> ok]

BatchCall(sheet, data, ok) ==
    [op |-> "batchUpdate", sheet |-> sheet, range |-> <<>>, data |-> data, ok |-> ok]

KnownCommands == {"add", "officeradd", "tryoutadd", "quotacheck"}

AddCommands == {"add", "officeradd", "tryoutadd"}

\* The invocation ends (no step that ends one writes to the store): the
\* store is recorded as it stands
Finish(i) ==
    /\ pc' = [pc EXCEPT ![i] = "done"]
    /\ doneStore' = [doneStore EXCEPT ![i] = store]

\* The next iteration of `for (const sheetName of SHEETS)`, or the code after
\* the loop.  The locals of the iteration go out of scope.
NextSheet(i) ==
    /\ sheetIdx' = [sheetIdx EXCEPT ![i] = @ + 1]
    /\ updates' = [updates EXCEPT ![i] = <<>>]
    /\ topValues' = [topValues EXCEPT ![i] = <<>>]
    /\ bottomValues' = [bottomValues EXCEPT ![i] = <<>>]
    /\ values' = [values EXCEPT ![i] = <<>>]
    /\ pc' = [pc EXCEPT ![i] =
                IF sheetIdx[i] < Len(SHEETS)
                THEN (IF cmd[i].name = "quotacheck" THEN "readTop" ELSE "read")
                ELSE "editReply"]

\* The error is swallowed: the handler goes on to its final reply
ThrowSwallowed(i) == pc' = [pc EXCEPT ![i] = "editReply"]

\* An awaited call throws: control passes to the dispatcher's catch block
Throw(i) == pc' = [pc EXCEPT ![i] = "catch"]

\* How many commands arrive in a behaviour
MaxCommands == 2

NoInteraction == [deferred |-> FALSE, replied |-> FALSE, sent |-> <<>>]

\* client.on('interactionCreate'): command c arrives and the switch picks
\* the handler.  A command arrives when no other is being handled; the
\* arrivals take the first `slots` invocation records in turn, and an
\* arrival starts from a fresh interaction and fresh locals.
Dispatch(i, c, slots) ==
    /\ served < MaxCommands
    /\ i = (served % slots) + 1
    /\ \A j \in Inv : pc[j] \in {"idle", "done"}
    /\ served' = served + 1
    /\ cmd' = [cmd EXCEPT ![i] = c]
    /\ pc' = [pc EXCEPT ![i] = IF c.name \in KnownCommands THEN "deferReply" ELSE "reply"]
    /\ sheetIdx' = [sheetIdx EXCEPT ![i] = 1]
    /\ topValues' = [topValues EXCEPT ![i] = <<>>]
    /\ bottomValues' = [bottomValues EXCEPT ![i] = <<>>]
    /\ values' = [values EXCEPT ![i] = <<>>]
    /\ updates' = [updates EXCEPT ![i] = <<>>]
    /\ summary' = [summary EXCEPT ![i] = NoSummary]
    /\ interaction' = [interaction EXCEPT ![i] = NoInteraction]
    /\ calls' = [calls EXCEPT ![i] = <<>>]
    /\ doneStore' = [doneStore EXCEPT ![i] = [s \in SheetSet |-> <<>>]]
    /\ startStore' = [startStore EXCEPT ![i] = store]
    /\ UNCHANGED <<variant, store, store0>>

\* The handler starting on the sheets without deferring the reply
deferReplySkipped(i) ==
    /\ pc[i] = "deferReply"
    /\ pc' = [pc EXCEPT ![i] =
                IF Len(SHEETS) = 0 THEN "editReply"
                ELSE IF cmd[i].name = "quotacheck" THEN "readTop" ELSE "read"]
    /\ UNCHANGED <<variant, store, cmd, sheetIdx, topValues, bottomValues, values,
                   updates, summary, interaction, calls, served, startStore, store0,
                   doneStore>>

\* await interaction.deferReply()
deferReply(i) ==
    /\ pc[i] = "deferReply"
    /\ \/ /\ interaction' = [interaction EXCEPT
                ![i].deferred = TRUE,
                ![i].sent = Append(@, Acknowledgment)]
          /\ pc' = [pc EXCEPT ![i] =
                      IF Len(SHEETS) = 0 THEN "editReply"
                      ELSE IF cmd[i].name = "quotacheck" THEN "readTop" ELSE "read"]
       \/ /\ interaction' = [interaction EXCEPT ![i].sent = Append(@, Failed(Acknowledgment))]
          /\ Throw(i)
    /\ UNCHANGED <<variant, store, cmd, sheetIdx, topValues, bottomValues, values,
                   updates, summary, calls, served, startStore, store0, doneStore>>

\* The default case raising an error instead of replying
replyUnknownRaising(i) ==
    /\ pc[i] = "reply"
    /\ Throw(i)
    /\ UNCHANGED <<variant, store, cmd, sheetIdx, topValues, bottomValues, values,
                   updates, summary, interaction, calls, served, startStore, store0,
                   doneStore>>

\* default: await interaction.reply({ content: 'Unknown command', ephemeral: true })
replyUnknown(i) ==
    /\ pc[i] = "reply"
    /\ \/ /\ interaction' = [interaction EXCEPT
                ![i].replied = TRUE,
                ![i].sent = Append(@, UnknownCommand)]
          /\ Finish(i)
       \/ /\ interaction' = [interaction EXCEPT ![i].sent = Append(@, Failed(UnknownCommand))]
          /\ Throw(i)
          /\ UNCHANGED doneStore
    /\ UNCHANGED <<variant, store, cmd, sheetIdx, topValues, bottomValues, values,
                   updates, summary, calls, served, startStore, store0>>

\* The top block read, and the bottom block left unread when the top block
\* staged nothing
quotaReadTopSkippingBottom(i) ==
    LET sheetName == SHEETS[sheetIdx[i]]
        range == <<TopFirstRow, TopLastRow, COL.J>>
        grid == getValues(store, sheetName, range[1], range[2], range[3])
        top == topBlockLoop(variant, sheetName, grid, 0)
        staged == top.updates \o tryoutResetLoop(variant, sheetName, grid, TopFirstRow)
    IN /\ pc[i] = "readTop"
       /\ cmd[i].name = "quotacheck"
       /\ calls' = [calls EXCEPT ![i] = Append(@, GetCall(sheetName, range, TRUE))]
       /\ summary' = [summary EXCEPT ![i].topIncrements = @ \o top.increments]
       /\ IF staged = <<>>
          THEN NextSheet(i)
          ELSE /\ topValues' = [topValues EXCEPT ![i] = grid]
               /\ updates' = [updates EXCEPT ![i] = staged]
               /\ pc' = [pc EXCEPT ![i] = "readBottom"]
               /\ UNCHANGED <<sheetIdx, bottomValues, values>>
       /\ UNCHANGED <<variant, store, cmd, interaction, served, startStore, store0, doneStore>>

\* handleQuotaCheck: await getValues(`${sheetName}!A7:J13`), then the loop
\* over the top block and the loop over rows 7..10
quotaReadTop(i) ==
    LET sheetName == SHEETS[sheetIdx[i]]
        range == <<TopFirstRow, TopLastRow, COL.J>>
        grid == getValues(store, sheetName, range[1], range[2], range[3])
        top == topBlockLoop(variant, sheetName, grid, 0)
    IN /\ pc[i] = "readTop"
       /\ cmd[i].name = "quotacheck"
       /\ \/ /\ calls' = [calls EXCEPT ![i] = Append(@, GetCall(sheetName, range, TRUE))]
             /\ topValues' = [topValues EXCEPT ![i] = grid]
             /\ updates' = [updates EXCEPT ![i] =
                   top.updates \o tryoutResetLoop(variant, sheetName, grid, TopFirstRow)]
             /\ summary' = [summary EXCEPT ![i].topIncrements = @ \o top.increments]
             /\ pc' = [pc EXCEPT ![i] = "readBottom"]
          \/ /\ calls' = [calls EXCEPT ![i] = Append(@, GetCall(sheetName, range, FALSE))]
             /\ Throw(i)
             /\ UNCHANGED <<topValues, updates, summary>>
       /\ UNCHANGED <<variant, store, cmd, sheetIdx, bottomValues, values, interaction,
                      served, startStore, store0, doneStore>>

\* handleQuotaCheck: await getValues(`${sheetName}!A19:I40`), then the loop
\* over the bottom block, up to `if (updates.length > 0)`
quotaReadBottom(i) ==
    LET sheetName == SHEETS[sheetIdx[i]]
        range == <<BottomFirstRow, BottomLastRow, COL.I>>
        grid == getValues(store, sheetName, range[1], range[2], range[3])
        bottom == bottomBlockLoop(variant, sheetName, grid, 0)
        staged == updates[i] \o bottom.updates
    IN /\ pc[i] = "readBottom"
       /\ \/ /\ calls' = [calls EXCEPT ![i] = Append(@, GetCall(sheetName, range, TRUE))]
             /\ summary' = [summary EXCEPT ![i].bottomIncrements = @ \o bottom.increments]
             /\ IF Len(staged) > 0
                THEN /\ bottomValues' = [bottomValues EXCEPT ![i] = grid]
                     /\ updates' = [updates EXCEPT ![i] = staged]
                     /\ pc' = [pc EXCEPT ![i] = "batchUpdate"]
                     /\ UNCHANGED <<sheetIdx, topValues, values>>
                ELSE NextSheet(i)
          \/ /\ calls' = [calls EXCEPT ![i] = Append(@, GetCall(sheetName, range, FALSE))]
             /\ Throw(i)
             /\ UNCHANGED <<sheetIdx, topValues, bottomValues, values, updates, summary>>
       /\ UNCHANGED <<variant, store, cmd, interaction, served, startStore, store0, doneStore>>

\* The add handlers: await getValues(range), then the loop over the words,
\* up to `if (updates.length > 0)`
addRead(i) ==
    LET sheetName == SHEETS[sheetIdx[i]]
        range == readRange(cmd[i].name)
        grid == getValues(store, sheetName, range[1], range[2], range[3])
        found == wordsLoop(cmd[i].name, sheetName, grid, parseWords(cmd[i].user), cmd[i].n)
    IN /\ pc[i] = "read"
       /\ cmd[i].name \in AddCommands
       /\ \/ /\ calls' = [calls EXCEPT ![i] = Append(@, GetCall(sheetName, range, TRUE))]
             /\ summary' = [summary EXCEPT ![i].updatesSummary = @ \o found.increments]
             /\ IF Len(found.updates) > 0
                THEN /\ values' = [values EXCEPT ![i] = grid]
                     /\ updates' = [updates EXCEPT ![i] = found.updates]
                     /\ pc' = [pc EXCEPT ![i] = "batchUpdate"]
                     /\ UNCHANGED <<sheetIdx, topValues, bottomValues>>
                ELSE NextSheet(i)
          \/ /\ calls' = [calls EXCEPT ![i] = Append(@, GetCall(sheetName, range, FALSE))]
             /\ Throw(i)
             /\ UNCHANGED <<sheetIdx, topValues, bottomValues, values, updates, summary>>
       /\ UNCHANGED <<variant, store, cmd, interaction, served, startStore, store0, doneStore>>

\* The staged writes sent one call per write instead of in one batch
batchUpdatePerWrite(i) ==
    LET sheetName == SHEETS[sheetIdx[i]]
    IN /\ pc[i] = "batchUpdate"
       /\ store' = ApplyUpdates(store, updates[i])
       /\ calls' = [calls EXCEPT ![i] =
             @ \o [k \in 1..Len(updates[i]) |-> BatchCall(sheetName, <<updates[i][k]>>, TRUE)]]
       /\ summary' = [summary EXCEPT ![i].sheetsUpdated =
             IF cmd[i].name = "quotacheck" THEN Append(@, sheetName) ELSE @]
       /\ NextSheet(i)
       /\ UNCHANGED <<variant, cmd, interaction, served, startStore, store0, doneStore>>

\* The write as a transaction: the new values are computed from the sheet
\* as it is when the write is made, not as it was read
batchUpdateFresh(i) ==
    LET sheetName == SHEETS[sheetIdx[i]]
        range == readRange(cmd[i].name)
        fresh == IF cmd[i].name = "quotacheck" THEN updates[i]
                 ELSE wordsLoop(cmd[i].name, sheetName,
                                getValues(store, sheetName, range[1], range[2], range[3]),
                                parseWords(cmd[i].user), cmd[i].n).updates
    IN /\ pc[i] = "batchUpdate"
       /\ store' = ApplyUpdates(store, fresh)
       /\ calls' = [calls EXCEPT ![i] = Append(@, BatchCall(sheetName, fresh, TRUE))]
       /\ summary' = [summary EXCEPT ![i].sheetsUpdated =
             IF cmd[i].name = "quotacheck" THEN Append(@, sheetName) ELSE @]
       /\ NextSheet(i)
       /\ UNCHANGED <<variant, cmd, interaction, served, startStore, store0, doneStore>>

\* await batchUpdate(updates), and in handleQuotaCheck
\* summary.sheetsUpdated.push(sheetName); then the next sheet.
\* batchUpdate returns without a call when the list is empty.
batchUpdate(i) ==
    LET sheetName == SHEETS[sheetIdx[i]]
    IN /\ pc[i] = "batchUpdate"
       /\ \/ /\ store' = (IF Len(updates[i]) = 0 THEN store
                          ELSE ApplyUpdates(store, updates[i]))
             /\ calls' = [calls EXCEPT ![i] =
                   IF Len(updates[i]) = 0 THEN @
                   ELSE Append(@, BatchCall(sheetName, updates[i], TRUE))]
             /\ summary' = [summary EXCEPT ![i].sheetsUpdated =
                   IF cmd[i].name = "quotacheck" THEN Append(@, sheetName) ELSE @]
             /\ NextSheet(i)
          \/ /\ Len(updates[i]) > 0
             /\ calls' = [calls EXCEPT ![i] = Append(@, BatchCall(sheetName, updates[i], FALSE))]
             /\ Throw(i)
             /\ UNCHANGED <<store, summary, sheetIdx, topValues, bottomValues, values,
                            updates>>
       /\ UNCHANGED <<variant, cmd, interaction, served, startStore, store0, doneStore>>

\* The text each handler sends at its end
finalMessage(i) ==
    IF cmd[i].name = "quotacheck"
    THEN Message("editReply", "quotaSummary", summary[i].topIncrements,
                 summary[i].bottomIncrements, summary[i].sheetsUpdated)
    ELSE IF Len(summary[i].updatesSummary) > 0
    THEN Message("editReply", "added", summary[i].updatesSummary, <<>>, <<>>)
    ELSE Message("editReply", "notFound", parseWords(cmd[i].user), <<>>, <<>>)

\* await interaction.editReply(msg), the last statement of every handler
editReply(i) ==
    /\ pc[i] = "editReply"
    /\ \/ /\ interaction' = [interaction EXCEPT
                ![i].replied = TRUE,
                ![i].sent = Append(@, finalMessage(i))]
          /\ Finish(i)
       \/ /\ interaction' = [interaction EXCEPT ![i].sent = Append(@, Failed(finalMessage(i)))]
          /\ Throw(i)
          /\ UNCHANGED doneStore
    /\ UNCHANGED <<variant, store, cmd, sheetIdx, topValues, bottomValues, values,
                   updates, summary, calls, served, startStore, store0>>

\* The catch block without its inner try: a failure of the error reply is
\* raised again
catchErrorRaising(i) ==
    LET via == IF ~interaction[i].deferred /\ ~interaction[i].replied
               THEN "reply" ELSE "editReply"
    IN /\ pc[i] = "catch"
       /\ \/ /\ interaction' = [interaction EXCEPT
                   ![i].replied = TRUE,
                   ![i].sent = Append(@, InternalError(via))]
             /\ Finish(i)
          \/ /\ interaction' = [interaction EXCEPT ![i].sent = Append(@, Failed(InternalError(via)))]
             /\ Throw(i)
             /\ UNCHANGED doneStore
       /\ UNCHANGED <<variant, store, cmd, sheetIdx, topValues, bottomValues, values,
                      updates, summary, calls, served, startStore, store0>>

\* The catch block undoing the invocation's writes: the store is put back
\* as it was when the command arrived
catchErrorRollingBack(i) ==
    LET via == IF ~interaction[i].deferred /\ ~interaction[i].replied
               THEN "reply" ELSE "editReply"
    IN /\ pc[i] = "catch"
       /\ \/ interaction' = [interaction EXCEPT
                ![i].replied = TRUE,
                ![i].sent = Append(@, InternalError(via))]
          \/ interaction' = [interaction EXCEPT ![i].sent = Append(@, Failed(InternalError(via)))]
       /\ store' = startStore[i]
       /\ pc' = [pc EXCEPT ![i] = "done"]
       /\ doneStore' = [doneStore EXCEPT ![i] = startStore[i]]
       /\ UNCHANGED <<variant, cmd, sheetIdx, topValues, bottomValues, values,
                      updates, summary, calls, served, startStore, store0>>

\* catch (err): reply or editReply with the internal-error text; a failure
\* of that call is caught and logged
catchError(i) ==
    LET via == IF ~interaction[i].deferred /\ ~interaction[i].replied
               THEN "reply" ELSE "editReply"
    IN /\ pc[i] = "catch"
       /\ \/ interaction' = [interaction EXCEPT
                ![i].replied = TRUE,
                ![i].sent = Append(@, InternalError(via))]
          \/ interaction' = [interaction EXCEPT ![i].sent = Append(@, Failed(InternalError(via)))]
       /\ Finish(i)
       /\ UNCHANGED <<variant, store, cmd, sheetIdx, topValues, bottomValues, values,
                      updates, summary, calls, served, startStore, store0>>

(***************************************************************************)
(* Initial states                                                          *)
(***************************************************************************)
sTRUE == <<"T", "R", "U", "E">>

sTrue == <<"t", "r", "u", "e">>

sFALSE == <<"F", "A", "L", "S", "E">>

sAl == <<"A", "l">>

sBo == <<"B", "o">>

sCm == <<"C", "m">>

sOf == <<"O", "f">>

sTr == <<"T", "r">>

sLd == <<"L", "d">>

sZed == <<"Z", "e", "d">>

\* The non-empty cells of one row: rec maps column letters to texts
RowCells(r, rec) ==
    LET filled == {c \in DOMAIN rec : rec[c] # <<>>}
    IN [p \in {<<r, COL[c]>> : c \in filled} |->
          rec[CHOOSE c \in filled : COL[c] = p[2]]]

EmptySheet == [p \in {} |-> <<>>]

\* Three sheets as the commands find them.
\* Company: "Al" in row 3 (C=10, D=2), "Bo" in row 5 with malformed
\* counters, an officer "Cm" in row 10 with no flag checked, an officer "Of"
\* in row 13 who passed, a trooper "Tr" in row 25 who passed, and a row
\* outside every block.
Company ==
    RowCells(3, [B |-> sAl, C |-> <<"1", "0">>, D |-> <<"2">>])
    @@ RowCells(5, [B |-> sBo, C |-> <<"x">>, D |-> <<"7", "k">>])
    @@ RowCells(10, [B |-> sCm, D |-> <<"4">>, E |-> <<"2">>, F |-> <<"3">>,
                     G |-> <<"1">>, H |-> sFALSE, J |-> sFALSE])
    @@ RowCells(13, [B |-> sOf, D |-> <<"1">>, E |-> <<"1">>, F |-> <<"0">>,
                     G |-> <<"6">>, J |-> sTRUE])
    @@ RowCells(15, [B |-> sZed, D |-> <<"9">>, F |-> <<"9">>])
    @@ RowCells(25, [B |-> sTr, D |-> <<"6">>, F |-> <<"2">>, I |-> sTRUE])

\* Squad: a leader "Cm" in row 7, a white-space identifier in row 8, a row 9
\* with column A only (so the top grid is short), and a trooper "Bo" in
\* row 19 with a malformed F and no flag checked.
Squad ==
    RowCells(7, [B |-> sCm, D |-> <<"3">>, E |-> <<"x">>, F |-> <<"5">>,
                 G |-> <<"2">>])
    @@ RowCells(8, [B |-> <<" ">>, D |-> <<"8">>, F |-> <<"1">>])
    @@ RowCells(9, [A |-> <<"x">>])
    @@ RowCells(19, [B |-> sBo, D |-> <<"5">>, F |-> <<"x">>, G |-> sFALSE])

\* Vacant: a sheet with no cell filled in
Layouts == <<Company, Squad, EmptySheet>>

SheetIndex(s) == CHOOSE k \in 1..Len(SHEETS) : SHEETS[k] = s

\* The sheets take the layouts in turn, starting from layout 1 + shift
Roster(shift) ==
    [s \in SheetSet |-> Layouts[((SheetIndex(s) - 1 + shift) % Len(Layouts)) + 1]]

Variants == {"index", "part_000"}

\* The rows, identifiers, F texts and flag texts one extra row is drawn from
FreeRows == (TopFirstRow..TopLastRow) \cup {BottomFirstRow, 25, BottomLastRow}

BValues == {<<>>, <<" ">>, <<" ", "A", "l", " ">>}

FValues == {<<>>, <<"3">>, <<"x">>, <<"1", "2", "a">>, <<"2", ".", "5">>}

FlagValues == {<<>>, sTrue, sFALSE}

\* One row of a block: in the top block J is "quota passed" and H "exempt",
\* in the bottom block I is "quota passed" and G "exempt"
FreeRow(r, b, f, passed, exempt) ==
    IF r <= TopLastRow
    THEN RowCells(r, [B |-> b, D |-> <<"4">>, E |-> <<"2">>, F |-> f, G |-> <<"1">>,
                      H |-> exempt, J |-> passed])
    ELSE RowCells(r, [B |-> b, D |-> <<"4">>, F |-> f, G |-> exempt, I |-> passed])

\* The sheet with row r replaced by `cells`
WithRow(sheet, r, cells) ==
    cells @@ [p \in {q \in DOMAIN sheet : q[1] # r} |-> sheet[p]]

InitInvocations ==
    /\ pc = [i \in Inv |-> "idle"]
    /\ cmd = [i \in Inv |-> NoCmd]
    /\ sheetIdx = [i \in Inv |-> 1]
    /\ topValues = [i \in Inv |-> <<>>]
    /\ bottomValues = [i \in Inv |-> <<>>]
    /\ values = [i \in Inv |-> <<>>]
    /\ updates = [i \in Inv |-> <<>>]
    /\ summary = [i \in Inv |-> NoSummary]
    /\ interaction = [i \in Inv |-> NoInteraction]
    /\ calls = [i \in Inv |-> <<>>]
    /\ doneStore = [i \in Inv |-> [s \in SheetSet |-> <<>>]]
    /\ startStore = [i \in Inv |-> [s \in SheetSet |-> <<>>]]

\* A roster, no command yet
Init ==
    /\ variant \in Variants
    /\ \E shift \in 0..(Len(Layouts) - 1) : store = Roster(shift)
    /\ store0 = store
    /\ served = 0
    /\ InitInvocations

\* The first roster with one row of one sheet drawn freely, when the last command
\* of the behaviour is about to arrive
InitQuota ==
    /\ variant \in Variants
    /\ \E s \in SheetSet, r \in FreeRows, b \in BValues, f \in FValues,
          passed \in FlagValues, exempt \in FlagValues :
          store = [Roster(0) EXCEPT ![s] = WithRow(@, r, FreeRow(r, b, f, passed, exempt))]
    /\ store0 = store
    /\ served = MaxCommands - 1
    /\ InitInvocations

(***************************************************************************)
(* Specifications                                                          *)
(***************************************************************************)
\* The option values of the commands
UserInputs == {sAl \o <<",", " ">> \o sBo, sCm, sZed, <<" ", ",", " ">>}

Amounts == {5}

Commands ==
    [name : AddCommands, user : UserInputs, n : Amounts]
    \cup {[name |-> "quotacheck", user |-> <<>>, n |-> 0],
          [name |-> "ping", user |-> <<>>, n |-> 0]}

Next ==
    \E i \in Inv :
        \/ \E c \in Commands : Dispatch(i, c, 1)
        \/ deferReply(i)
        \/ replyUnknown(i)
        \/ quotaReadTop(i)
        \/ quotaReadBottom(i)
        \/ addRead(i)
        \/ batchUpdate(i)
        \/ editReply(i)
        \/ catchError(i)

Spec == Init /\ [][Next]_vars

QuotaCheck == [name |-> "quotacheck", user |-> <<>>, n |-> 0]

\* One quota check on each roster of InitQuota
NextQuota ==
    \E i \in Inv :
        \/ Dispatch(i, QuotaCheck, 1)
        \/ deferReply(i)
        \/ quotaReadTop(i)
        \/ quotaReadBottom(i)
        \/ batchUpdate(i)
        \/ editReply(i)
        \/ catchError(i)

SpecQuota == InitQuota /\ [][NextQuota]_vars

\* The rows and flag texts of the extra member of InitSummary
SummaryRows == {QuotaFirstRow, TopLastRow, BottomFirstRow, BottomLastRow}

\* Any roster, with one more member " Al " in one row of one sheet, when
\* the last command of the behaviour is about to arrive
InitSummary ==
    /\ variant \in Variants
    /\ \E shift \in 0..(Len(Layouts) - 1), s \in SheetSet, r \in SummaryRows,
          f \in FValues, passed \in FlagValues :
          store = [Roster(shift) EXCEPT
                      ![s] = WithRow(@, r, FreeRow(r, <<" ", "A", "l", " ">>, f, passed, <<>>))]
    /\ store0 = store
    /\ served = MaxCommands - 1
    /\ InitInvocations

\* One quota check on each roster of InitSummary
SpecSummary == InitSummary /\ [][NextQuota]_vars

\* Quota checks one after the other on the roster, each in its own
\* invocation record, so that a run can be compared with the run before it
NextRepeat ==
    \E i \in Inv :
        \/ Dispatch(i, QuotaCheck, NumInv)
        \/ deferReply(i)
        \/ quotaReadTop(i)
        \/ quotaReadBottom(i)
        \/ batchUpdate(i)
        \/ editReply(i)
        \/ catchError(i)

SpecRepeat == Init /\ [][NextRepeat]_vars

\* The rows, identifiers and counter texts one extra row is drawn from
AddRows == {AddFirstRow, QuotaFirstRow, TryoutLastRow + 1, AddLastRow}

AddBValues == {sCm, <<"c", "m">>, <<" ", "C", "m">>, sZed, sBo}

CounterTexts == {<<>>, <<"1", "0">>, <<"7", "k">>, <<"x">>}

\* The first roster with one row of one sheet drawn freely, when the last
\* command of the behaviour is about to arrive
InitAdd ==
    /\ variant \in Variants
    /\ \E s \in SheetSet, r \in AddRows, b \in AddBValues, t \in CounterTexts :
          store = [Roster(0) EXCEPT ![s] =
                      WithRow(@, r, RowCells(r, [B |-> b, C |-> t, D |-> t, E |-> t, G |-> t]))]
    /\ store0 = store
    /\ served = MaxCommands - 1
    /\ InitInvocations

\* One add, officeradd or tryoutadd on each roster of InitAdd
NextAdd ==
    \E i \in Inv :
        \/ \E c \in [name : AddCommands, user : UserInputs, n : Amounts] : Dispatch(i, c, 1)
        \/ deferReply(i)
        \/ addRead(i)
        \/ batchUpdate(i)
        \/ editReply(i)
        \/ catchError(i)

SpecAdd == InitAdd /\ [][NextAdd]_vars

\* Target lists that name an identifier twice: "Cm, Cm" and "Al, Bo,Al"
TwiceInputs ==
    {sCm \o <<",", " ">> \o sCm,
     sAl \o <<",", " ">> \o sBo \o <<",">> \o sAl}

\* One add, officeradd or tryoutadd with such a list on each roster of
\* InitAdd
NextTwice ==
    \E i \in Inv :
        \/ \E c \in [name : AddCommands, user : TwiceInputs, n : Amounts] : Dispatch(i, c, 1)
        \/ deferReply(i)
        \/ addRead(i)
        \/ batchUpdate(i)
        \/ editReply(i)
        \/ catchError(i)

SpecTwice == InitAdd /\ [][NextTwice]_vars

\* A roster when the last two commands of the behaviour are about to arrive
InitRace ==
    /\ variant \in Variants
    /\ \E shift \in 0..(Len(Layouts) - 1) : store = Roster(shift)
    /\ store0 = store
    /\ served = MaxCommands - 2
    /\ InitInvocations

\* A command arrives while another may still be in progress: the hosting
\* environment starts a handler for every interaction event
Arrive(i, c) ==
    /\ served < MaxCommands
    /\ i = served + 1
    /\ pc[i] = "idle"
    /\ served' = served + 1
    /\ cmd' = [cmd EXCEPT ![i] = c]
    /\ pc' = [pc EXCEPT ![i] = IF c.name \in KnownCommands THEN "deferReply" ELSE "reply"]
    /\ startStore' = [startStore EXCEPT ![i] = store]
    /\ UNCHANGED <<variant, store, store0, sheetIdx, topValues, bottomValues, values,
                   updates, summary, interaction, calls, doneStore>>

\* The commands that race: an add for "Cm" and a quota check
RaceCommands == {[name |-> "add", user |-> sCm, n |-> 5], QuotaCheck}

\* Commands handled concurrently: the steps of the invocations interleave at
\* their awaits
NextRace ==
    \E i \in Inv :
        \/ \E c \in RaceCommands : Arrive(i, c)
        \/ deferReply(i)
        \/ quotaReadTop(i)
        \/ quotaReadBottom(i)
        \/ addRead(i)
        \/ batchUpdate(i)
        \/ editReply(i)
        \/ catchError(i)

SpecRace == InitRace /\ [][NextRace]_vars

\* Commands that race on cells of their own: a tryoutadd and an officeradd
\* for "Cm", an add for "Al" and "Bo", and a quota check
DisjointCommands ==
    {[name |-> "tryoutadd", user |-> sCm, n |-> 5],
     [name |-> "officeradd", user |-> sCm, n |-> 5],
     [name |-> "add", user |-> sAl \o <<",", " ">> \o sBo, n |-> 5],
     QuotaCheck}

\* Two of these commands handled concurrently
NextDisjoint ==
    \E i \in Inv :
        \/ \E c \in DisjointCommands : Arrive(i, c)
        \/ deferReply(i)
        \/ quotaReadTop(i)
        \/ quotaReadBottom(i)
        \/ addRead(i)
        \/ batchUpdate(i)
        \/ editReply(i)
        \/ catchError(i)

SpecDisjoint == InitRace /\ [][NextDisjoint]_vars

(***************************************************************************)
(* Vocabulary of the properties                                            *)
(***************************************************************************)
TopRows == TopFirstRow..TopLastRow

BottomRows == BottomFirstRow..BottomLastRow

TopRange == <<TopFirstRow, TopLastRow, COL.J>>

BottomRange == <<BottomFirstRow, BottomLastRow, COL.I>>

SeqSet(q) == {q[k] : k \in 1..Len(q)}

IsQuota(i) == cmd[i].name = "quotacheck"

\* The positions in the call log of the write calls for sheet s
BatchCalls(i, s) ==
    {k \in 1..Len(calls[i]) : calls[i][k].op = "batchUpdate" /\ calls[i][k].sheet = s}

\* Invocation i has read both blocks of sheet s
StagingComplete(i, s) == GetCall(s, BottomRange, TRUE) \in SeqSet(calls[i])

\* The writes staged for sheet s: the list about to be sent, or the list
\* that was sent
StagedFor(i, s) ==
    IF pc[i] = "batchUpdate" /\ sheetIdx[i] <= Len(SHEETS) /\ SHEETS[sheetIdx[i]] = s
    THEN SeqSet(updates[i])
    ELSE UNION {SeqSet(calls[i][k].data) : k \in BatchCalls(i, s)}

\* Every write invocation i has staged or sent so far
AllStaged(i) ==
    SeqSet(updates[i])
    \cup UNION {SeqSet(calls[i][k].data) : k \in {m \in 1..Len(calls[i]) :
                                                  calls[i][m].op = "batchUpdate"}}

\* The cell texts as they were when invocation i began
TextAt(i, s, r, col) == CellAt(startStore[i], s, r, COL[col])

Identified(i, s, r) == trim(TextAt(i, s, r, "B")) # <<>>

\* A check box shows TRUE when it is checked
Ticked(text) == toUpperCase(text) = sTRUE

\* Invocation i ended with its summary delivered
Succeeded(i) ==
    /\ pc[i] = "done"
    /\ \E m \in SeqSet(interaction[i].sent) :
          m.ok /\ m.kind \in {"quotaSummary", "added", "notFound"}

QuotaEntries(i) == SeqSet(summary[i].topIncrements) \cup SeqSet(summary[i].bottomIncrements)

(***************************************************************************)
(* Properties                                                              *)
(***************************************************************************)
\* C1 (row-skip invariant): in a quota check, a row of the top block (7-13)
\* or of the bottom block (19-40) whose column B is empty, white space only
\* or absent from the grid gets no staged write of any kind and no summary
\* entry.
C1_RowSkip ==
    \A i \in Inv : IsQuota(i) =>
        /\ \A u \in AllStaged(i) :
              u.row \in TopRows \cup BottomRows => Identified(i, u.sheet, u.row)
        /\ \A e \in QuotaEntries(i) :
              e.row \in TopRows \cup BottomRows => Identified(i, e.sheet, e.row)

\* A finished quota check on a sheet with a white-space identifier in a top
\* row that has an F and no flag ticked, a top row missing from the short
\* grid, an empty bottom row, and writes staged for other rows of the sheet
C1_Witness ==
    \E i \in Inv : \E s \in SheetSet : \E r \in (QuotaFirstRow..TopLastRow) :
        /\ IsQuota(i) /\ Succeeded(i)
        /\ TextAt(i, s, r, "B") = <<" ">>
        /\ TextAt(i, s, r, "F") # <<>>
        /\ ~Ticked(TextAt(i, s, r, "J")) /\ ~Ticked(TextAt(i, s, r, "H"))
        /\ Len(getValues(startStore[i], s, TopFirstRow, TopLastRow, COL.J)) < TopLastRow - TopFirstRow + 1
        /\ \E r2 \in BottomRows : TextAt(i, s, r2, "B") = <<>> /\ TextAt(i, s, r2, "F") # <<>>
        /\ StagedFor(i, s) # {}

\* C6 (unconditional reset): in a quota check, every identified row of
\* 7-13 has D=0 and E=0 staged and every identified row of 19-40 has D=0
\* staged, whatever its flags and whether or not its F was incremented.
C6_UnconditionalReset ==
    \A i \in Inv : \A s \in SheetSet :
        IsQuota(i) /\ StagingComplete(i, s) =>
            /\ \A r \in TopRows : Identified(i, s, r) =>
                  /\ Update(s, "D", r, Num(0)) \in StagedFor(i, s)
                  /\ Update(s, "E", r, Num(0)) \in StagedFor(i, s)
            /\ \A r \in BottomRows : Identified(i, s, r) =>
                  Update(s, "D", r, Num(0)) \in StagedFor(i, s)

\* A bottom row whose quota-passed flag is ticked: no F write, D reset; and
\* a top row with a flag ticked: no F write, D and E reset
C6_Witness ==
    \E i \in Inv : \E s \in SheetSet : \E r \in BottomRows : \E r2 \in TopRows :
        /\ IsQuota(i) /\ StagingComplete(i, s)
        /\ Identified(i, s, r) /\ Ticked(TextAt(i, s, r, "I"))
        /\ \A u \in StagedFor(i, s) : ~(u.row = r /\ u.col = "F")
        /\ Update(s, "D", r, Num(0)) \in StagedFor(i, s)
        /\ Identified(i, s, r2) /\ Ticked(TextAt(i, s, r2, "J"))
        /\ \A u \in StagedFor(i, s) : ~(u.row = r2 /\ u.col = "F")
        /\ Update(s, "E", r2, Num(0)) \in StagedFor(i, s)

\* The integer a counter text stands for: the integer it starts with (after
\* white space and a sign), and 0 when it is empty or starts with none
CoerceInt(text) == IF parseInt(text).nan THEN 0 ELSE parseInt(text).num

\* The F writes staged for row r of sheet s
FWrites(i, s, r) == {u \in StagedFor(i, s) : u.row = r /\ u.col = "F"}

\* How many entries of a summary list are about row r of sheet s
EntryCount(list, s, r) ==
    Cardinality({k \in 1..Len(list) : list[k].sheet = s /\ list[k].row = r})

\* C2 (row-7 asymmetry): row 7 never gets an F write and never appears in
\* the top-increment list, and when its identifier is non-empty it gets
\* D, E and G reset to 0.
C2_Row7Asymmetry ==
    \A i \in Inv : IsQuota(i) =>
        /\ \A u \in AllStaged(i) : ~(u.row = TopFirstRow /\ u.col = "F")
        /\ \A e \in SeqSet(summary[i].topIncrements) : e.row # TopFirstRow
        /\ \A s \in SheetSet :
              StagingComplete(i, s) /\ Identified(i, s, TopFirstRow) =>
                  \A col \in {"D", "E", "G"} :
                      Update(s, col, TopFirstRow, Num(0)) \in StagedFor(i, s)

\* The quota rule for row r of sheet s, with the row's two flag columns and
\* the summary list of its block
QuotaRule(i, s, r, passed, exempt, list) ==
    LET unticked == ~Ticked(TextAt(i, s, r, passed)) /\ ~Ticked(TextAt(i, s, r, exempt))
        fNew == Num(CoerceInt(TextAt(i, s, r, "F")) + 1)
    IN /\ (FWrites(i, s, r) # {}) <=> unticked
       /\ unticked =>
             /\ FWrites(i, s, r) = {Update(s, "F", r, fNew)}
             /\ EntryCount(list, s, r) = 1
             /\ Entry(s, r, trim(TextAt(i, s, r, "B")), <<fNew>>) \in SeqSet(list)
       /\ ~unticked => EntryCount(list, s, r) = 0

\* C3 (quota-increment rule): for every identified row of 8-13 and of
\* 19-40, an F write is staged if and only if neither flag of the row is
\* ticked (J and H above, I and G below); the value staged is the
\* integer-coerced F plus 1, and exactly one entry with the sheet, the row,
\* the name and the new F is recorded in the list of the block.
C3_QuotaIncrement ==
    \A i \in Inv : \A s \in SheetSet :
        IsQuota(i) /\ StagingComplete(i, s) =>
            /\ \A r \in QuotaFirstRow..TopLastRow : Identified(i, s, r) =>
                  QuotaRule(i, s, r, "J", "H", summary[i].topIncrements)
            /\ \A r \in BottomRows : Identified(i, s, r) =>
                  QuotaRule(i, s, r, "I", "G", summary[i].bottomIncrements)

\* C4 (tryout reset): every identified row of 7-10 has G=0 staged, and no
\* G write is staged for rows 11-13.
C4_TryoutReset ==
    \A i \in Inv : \A s \in SheetSet :
        IsQuota(i) /\ StagingComplete(i, s) =>
            /\ \A r \in TopFirstRow..TryoutLastRow : Identified(i, s, r) =>
                  Update(s, "G", r, Num(0)) \in StagedFor(i, s)
            /\ \A u \in StagedFor(i, s) :
                  ~(u.col = "G" /\ u.row \in (TryoutLastRow + 1)..TopLastRow)

\* The cells a quota check may write: D, E, F, G of rows 7-13 and D, F of
\* rows 19-40
QuotaWritable(u) ==
    \/ u.row \in TopRows /\ u.col \in {"D", "E", "F", "G"}
    \/ u.row \in BottomRows /\ u.col \in {"D", "F"}

AllRows == AddFirstRow..AddLastRow

\* C5 (identifier preservation): column B of every row of every sheet holds
\* what it held at the start, whatever commands have run; and a quota check
\* writes only to D, E, F, G of rows 7-13 and D, F of rows 19-40.
C5_IdentifierPreserved ==
    /\ \A s \in SheetSet : \A r \in AllRows :
          CellAt(store, s, r, COL.B) = CellAt(store0, s, r, COL.B)
    /\ \A i \in Inv : IsQuota(i) => \A u \in AllStaged(i) : QuotaWritable(u)

\* The columns whose current value a command adds to, and what it adds
CounterColumns(name) ==
    CASE name = "add" -> {"C", "D"}
      [] name = "officeradd" -> {"D", "E"}
      [] name = "tryoutadd" -> {"G"}
      [] OTHER -> {"F"}

Delta(i) == IF IsQuota(i) THEN 1 ELSE cmd[i].n

\* C9 (malformed numeric cell): every staged value is an integer, and when
\* the counter cell a command adds to is empty or does not start with a
\* number, the value staged for it is exactly the delta.
C9_MalformedCell ==
    \A i \in Inv : \A u \in AllStaged(i) :
        /\ IsInteger(u.value)
        /\ (u.col \in CounterColumns(cmd[i].name) /\ u.value # Num(0)
            /\ parseInt(TextAt(i, u.sheet, u.row, u.col)).nan)
              => u.value = Num(Delta(i))

\* The text of a cell when invocation i ended
EndText(i, s, r, col) == CellAt(doneStore[i], s, r, COL[col])

\* Run j is the successful quota check that followed the successful quota
\* check i and began where it ended
QuotaRerun(i, j) ==
    /\ j = i + 1
    /\ IsQuota(i) /\ Succeeded(i)
    /\ IsQuota(j) /\ Succeeded(j)
    /\ startStore[j] = doneStore[i]

\* Text b is a number one higher than the number text a is
OneHigher(a, b) ==
    /\ ~NumberOfString(a).nan /\ a # <<>>
    /\ ~NumberOfString(b).nan /\ b # <<>>
    /\ NumberOfString(b) = PlusOne(NumberOfString(a))

EntryRows(i) == {<<e.sheet, e.row>> : e \in QuotaEntries(i)}

\* C7 (repeated quota check): when a quota check is run twice in a row with
\* no change in between, after the second run every identified row whose
\* flags are not ticked has an F one higher than after the first run; D and
\* E of identified rows 7-13, G of identified rows 7-10 and D of identified
\* rows 19-40 are 0 after both runs; and both runs increment the same rows.
C7_RepeatedQuotaCheck ==
    \A i \in Inv : \A j \in Inv : QuotaRerun(i, j) =>
        /\ \A s \in SheetSet :
              /\ \A r \in TopRows : Identified(i, s, r) =>
                    /\ (r >= QuotaFirstRow /\ ~Ticked(TextAt(i, s, r, "J"))
                        /\ ~Ticked(TextAt(i, s, r, "H")))
                          => OneHigher(EndText(i, s, r, "F"), EndText(j, s, r, "F"))
                    /\ \A col \in {"D", "E"} :
                          EndText(i, s, r, col) = <<"0">> /\ EndText(j, s, r, col) = <<"0">>
                    /\ r <= TryoutLastRow =>
                          EndText(i, s, r, "G") = <<"0">> /\ EndText(j, s, r, "G") = <<"0">>
              /\ \A r \in BottomRows : Identified(i, s, r) =>
                    /\ (~Ticked(TextAt(i, s, r, "I")) /\ ~Ticked(TextAt(i, s, r, "G")))
                          => OneHigher(EndText(i, s, r, "F"), EndText(j, s, r, "F"))
                    /\ EndText(i, s, r, "D") = <<"0">> /\ EndText(j, s, r, "D") = <<"0">>
        /\ EntryRows(i) = EntryRows(j)

\* The writes the handler of invocation i stages for sheet s, from the sheet
\* as it was when the command arrived
ExpectedStaged(i, s) ==
    IF IsQuota(i)
    THEN LET top == getValues(startStore[i], s, TopFirstRow, TopLastRow, COL.J)
             bottom == getValues(startStore[i], s, BottomFirstRow, BottomLastRow, COL.I)
         IN topBlockLoop(variant, s, top, 0).updates
            \o tryoutResetLoop(variant, s, top, TopFirstRow)
            \o bottomBlockLoop(variant, s, bottom, 0).updates
    ELSE LET range == readRange(cmd[i].name)
         IN wordsLoop(cmd[i].name, s, getValues(startStore[i], s, range[1], range[2], range[3]),
                      parseWords(cmd[i].user), cmd[i].n).updates

\* Invocation i has left the loop iteration of sheet s
SheetFinished(i, s) == cmd[i].name \in KnownCommands /\ SheetIndex(s) < sheetIdx[i]

\* C8 (at most one batch per sheet): in one invocation, a sheet gets no write
\* call when nothing was staged for it and exactly one when something was,
\* never more; the one call carries all the writes staged for the sheet.
C8_OneBatchPerSheet ==
    \A i \in Inv : \A s \in SheetSet :
        /\ Cardinality(BatchCalls(i, s)) <= 1
        /\ \A k \in BatchCalls(i, s) :
              calls[i][k].data # <<>> /\ calls[i][k].data = ExpectedStaged(i, s)
        /\ SheetFinished(i, s) =>
              Cardinality(BatchCalls(i, s)) = IF ExpectedStaged(i, s) = <<>> THEN 0 ELSE 1

\* A finished quota check with a sheet that got no write call and a sheet
\* that got one call carrying several writes
C8_Witness ==
    \E i \in Inv : \E s1 \in SheetSet : \E s2 \in SheetSet :
        /\ IsQuota(i) /\ Succeeded(i)
        /\ BatchCalls(i, s1) = {}
        /\ \E k \in BatchCalls(i, s2) : Len(calls[i][k].data) > 2

FailedCalls(i) == {k \in 1..Len(calls[i]) : ~calls[i][k].ok}

SummaryKinds == {"quotaSummary", "added", "notFound"}

\* What was sent after the acknowledgment, and what of it arrived
Replies(i) == SelectSeq(interaction[i].sent, LAMBDA m : m.via # "deferReply")

Received(i) == SelectSeq(Replies(i), LAMBDA m : m.ok)

\* After a failed call to the store nothing more is asked of the store and
\* no summary is sent
AbortsOnFailure(i) ==
    FailedCalls(i) # {} =>
        /\ FailedCalls(i) = {Len(calls[i])}
        /\ \A m \in SeqSet(interaction[i].sent) : m.kind \notin SummaryKinds

\* C10 as stated (abort on store failure): after a failed read or write the
\* invocation makes no further store call, sends no summary, and the user
\* receives exactly one internal-error reply.
C10_AbortOnStoreFailure ==
    \A i \in Inv :
        /\ AbortsOnFailure(i)
        /\ (FailedCalls(i) # {} /\ pc[i] = "done") =>
              Received(i) = <<InternalError("editReply")>>

\* C10 as amended: after a failed read or write the invocation makes no
\* further store call and sends no summary, and exactly one internal-error
\* reply is sent, as an edit of the deferred reply; the user receives it
\* unless that send itself fails.
C10_AbortOnStoreFailureAmended ==
    \A i \in Inv :
        /\ AbortsOnFailure(i)
        /\ (FailedCalls(i) # {} /\ pc[i] = "done") =>
              /\ Len(Replies(i)) = 1
              /\ Replies(i)[1] \in {InternalError("editReply"), Failed(InternalError("editReply"))}

\* An invocation that ended after a failed write to its second sheet, with
\* the internal-error reply delivered
C10_Witness ==
    \E i \in Inv :
        /\ pc[i] = "done"
        /\ Len(calls[i]) > 2
        /\ ~calls[i][Len(calls[i])].ok
        /\ calls[i][Len(calls[i])].op = "batchUpdate"
        /\ Received(i) = <<InternalError("editReply")>>

\* The positions in the message log of the internal-error responses
ErrorReplies(i) ==
    {k \in 1..Len(interaction[i].sent) : interaction[i].sent[k].kind = "internalError"}

\* A call of the handler of invocation i was rejected
ErrorRaised(i) ==
    \/ FailedCalls(i) # {}
    \/ \E m \in SeqSet(interaction[i].sent) : ~m.ok /\ m.kind # "internalError"

\* Before message k the invocation was acknowledged or answered
AnsweredBefore(i, k) == \E j \in 1..(k - 1) : interaction[i].sent[j].ok

\* C11 (dispatcher catch-all): an error raised while a command is handled is
\* answered with a single internal-error response, and only an error is;
\* the response is a fresh reply when the invocation was neither deferred nor
\* replied to and an edit of the existing reply otherwise; with it the
\* invocation ends, also when sending it fails.
C11_CatchAll ==
    \A i \in Inv :
        /\ Cardinality(ErrorReplies(i)) <= 1
        /\ pc[i] = "done" => (ErrorReplies(i) # {} <=> ErrorRaised(i))
        /\ \A k \in ErrorReplies(i) :
              /\ k = Len(interaction[i].sent)
              /\ pc[i] = "done"
              /\ interaction[i].sent[k].via =
                    IF AnsweredBefore(i, k) THEN "editReply" ELSE "reply"

\* The acknowledgment was rejected and so was the fresh internal-error reply:
\* the invocation has ended all the same
C11_Witness ==
    \E i \in Inv :
        /\ pc[i] = "done"
        /\ interaction[i].sent = <<Failed(Acknowledgment), Failed(InternalError("reply"))>>

\* Word w of an add command matches no row of any sheet in the range the
\* command scans
AbsentEverywhere(i, w) ==
    LET range == readRange(cmd[i].name)
    IN \A s \in SheetSet :
          findIndex(getValues(startStore[i], s, range[1], range[2], range[3]), w) = -1

\* The reply that reached the user names w as not found
ReportedAbsent(i, w) ==
    \E m \in SeqSet(interaction[i].sent) :
        m.ok /\ m.kind = "notFound" /\ w \in SeqSet(m.items)

\* C12 (not-found reporting): for add, officeradd and tryoutadd, every
\* requested identifier that matches no row in any sheet is reported in the
\* final reply, also when other identifiers of the invocation were matched.
C12_NotFoundReported ==
    \A i \in Inv :
        (cmd[i].name \in AddCommands /\ Succeeded(i)) =>
            \A w \in SeqSet(parseWords(cmd[i].user)) :
                AbsentEverywhere(i, w) => ReportedAbsent(i, w)

\* The writes an add handler stages from the grid it holds
StagedFromRead(i, s) ==
    wordsLoop(cmd[i].name, s, values[i], parseWords(cmd[i].user), cmd[i].n).updates

\* Invocation i has just had a write call accepted
WriteAccepted(i) ==
    /\ Len(calls'[i]) = Len(calls[i]) + 1
    /\ calls'[i][Len(calls'[i])].op = "batchUpdate"
    /\ calls'[i][Len(calls'[i])].ok

\* After the step, the cell of write u holds the value of u
Written(u) ==
    u.value.nan \/ CellAt(store', u.sheet, u.row, COL[u.col]) = FormatNumber(u.value)

\* C13 (accepted lost-update race): the read-modify-write of a cell is not
\* atomic across invocations.  A write call of an add carries the sums
\* computed from the grid the invocation read, whatever other invocations
\* wrote since, and every accepted write replaces what the cell holds: the
\* last write wins and nothing is merged.
C13_LastWriteWins ==
    [][\A i \in Inv : WriteAccepted(i) =>
          LET call == calls'[i][Len(calls'[i])]
          IN /\ cmd[i].name \in AddCommands => call.data = StagedFromRead(i, call.sheet)
             /\ \A u \in SeqSet(call.data) : Written(u)]_vars

\* The accepted write calls of invocation i that write the cell
WritesTo(i, s, r, col) ==
    {k \in BatchCalls(i, s) :
        calls[i][k].ok /\ \E u \in SeqSet(calls[i][k].data) : u.row = r /\ u.col = col}

\* Two concurrent adds of 5 to "Cm" both succeeded and both wrote C of row
\* 10, which was empty: the cell holds 5, not 10
C13_Witness ==
    \E i \in Inv : \E j \in Inv : \E s \in SheetSet :
        /\ i # j
        /\ cmd[i].name = "add" /\ Succeeded(i) /\ WritesTo(i, s, 10, "C") # {}
        /\ cmd[j].name = "add" /\ Succeeded(j) /\ WritesTo(j, s, 10, "C") # {}
        /\ CellAt(store0, s, 10, COL.C) = <<>>
        /\ CellAt(store, s, 10, COL.C) = <<"5">>

\* An add that read D of row 10 before a concurrent quota check reset it has
\* overwritten the 0 with its stale sum
C13_StaleSum ==
    \E i \in Inv : \E j \in Inv : \E s \in SheetSet :
        /\ cmd[i].name = "add" /\ Succeeded(i) /\ WritesTo(i, s, 10, "D") # {}
        /\ IsQuota(j) /\ Succeeded(j) /\ WritesTo(j, s, 10, "D") # {}
        /\ CellAt(store0, s, 10, COL.D) = <<"4">>
        /\ CellAt(doneStore[j], s, 10, COL.D) = <<"0">>
        /\ CellAt(store, s, 10, COL.D) = <<"9">>

\* The rows a command scans for its targets
ScanRows(name) == readRange(name)[1]..readRange(name)[2]

Words(i) == parseWords(cmd[i].user)

\* The lowest row of the scanned range of sheet s whose column B is exactly
\* w, or 0 when there is none
FirstMatch(i, s, w) ==
    LET R == {r \in ScanRows(cmd[i].name) : TextAt(i, s, r, "B") = w}
    IN IF R = {} THEN 0 ELSE CHOOSE r \in R : \A q \in R : r <= q

\* Invocation i has read sheet s
HasRead(i, s) == GetCall(s, readRange(cmd[i].name), TRUE) \in SeqSet(calls[i])

\* The summary entries of invocation i for word w in sheet s
AddEntries(i, s, w) ==
    {e \in SeqSet(summary[i].updatesSummary) : e.sheet = s /\ e.name = w}

\* C14 (row matcher): for add, officeradd and tryoutadd, a target is matched
\* against column B by exact, case-sensitive equality; of several matching
\* rows only the first is used; the row written is the matched row of the
\* sheet, so no write lands outside the scanned rows.
C14_RowMatcher ==
    \A i \in Inv : cmd[i].name \in AddCommands =>
        /\ \A s \in SheetSet : HasRead(i, s) =>
              \A w \in SeqSet(Words(i)) :
                  {e.row : e \in AddEntries(i, s, w)} =
                      IF FirstMatch(i, s, w) = 0 THEN {} ELSE {FirstMatch(i, s, w)}
        /\ \A u \in AllStaged(i) :
              /\ u.row \in ScanRows(cmd[i].name)
              /\ \E w \in SeqSet(Words(i)) : u.row = FirstMatch(i, u.sheet, w)

\* A sheet holds the target in two rows of the scanned range: the command
\* ended having written the first of them
C14_Witness ==
    \E i \in Inv : \E s \in SheetSet : \E w \in SeqSet(Words(i)) :
        /\ cmd[i].name \in AddCommands /\ Succeeded(i)
        /\ \E r1 \in ScanRows(cmd[i].name) : \E r2 \in ScanRows(cmd[i].name) :
              /\ r1 < r2
              /\ TextAt(i, s, r1, "B") = w /\ TextAt(i, s, r2, "B") = w
        /\ \E u \in AllStaged(i) : u.sheet = s /\ u.row = FirstMatch(i, s, w)

\* The writes staged for sheet s, in the order staged: the list about to be
\* sent, or the list that was sent
StagedSeq(i, s) ==
    IF pc[i] = "batchUpdate" /\ sheetIdx[i] <= Len(SHEETS) /\ SHEETS[sheetIdx[i]] = s
    THEN updates[i]
    ELSE IF BatchCalls(i, s) = {} THEN <<>>
    ELSE calls[i][CHOOSE k \in BatchCalls(i, s) : TRUE].data

\* The words of invocation i that match a row of sheet s
Matched(i, s) == SelectSeq(Words(i), LAMBDA w : FirstMatch(i, s, w) # 0)

\* C15 (counter mutator): for each matched target and each counter column of
\* the command (C and D for add, D and E for officeradd, G for tryoutadd),
\* exactly one write is staged, to the matched row of the sheet in which the
\* target was found, of the integer the cell holds plus the amount; nothing
\* else is staged.
C15_CounterMutator ==
    \A i \in Inv : cmd[i].name \in AddCommands =>
        \A s \in SheetSet : HasRead(i, s) =>
            /\ SeqSet(StagedSeq(i, s)) =
                  {Update(s, col, FirstMatch(i, s, w),
                          Num(CoerceInt(TextAt(i, s, FirstMatch(i, s, w), col)) + cmd[i].n)) :
                     w \in SeqSet(Matched(i, s)), col \in CounterColumns(cmd[i].name)}
            /\ Len(StagedSeq(i, s)) =
                  Len(Matched(i, s)) * Cardinality(CounterColumns(cmd[i].name))

\* add of 5 to "Al", in row 3 with C=10 and D=2: the row holds C=15, D=7
C15_Witness ==
    \E i \in Inv : \E s \in SheetSet :
        /\ cmd[i].name = "add" /\ cmd[i].n = 5 /\ Succeeded(i)
        /\ TextAt(i, s, 3, "B") = sAl
        /\ TextAt(i, s, 3, "C") = <<"1", "0">> /\ TextAt(i, s, 3, "D") = <<"2">>
        /\ CellAt(store, s, 3, COL.C) = <<"1", "5">>
        /\ CellAt(store, s, 3, COL.D) = <<"7">>

\* The read calls of invocation i, in order
GetCalls(i) == SelectSeq(calls[i], LAMBDA c : c.op = "get")

\* C16 (not-found is not fatal): in add, officeradd and tryoutadd every sheet
\* is read once, in order, whatever was found before; a sheet in which no
\* target is found gets nothing staged and no write call; a target found in
\* a sheet is processed also when an earlier target was not; when no target
\* is found in any sheet no write call is made and the reply is the
\* command's not-found message listing the targets.
C16_NotFoundNotFatal ==
    \A i \in Inv : cmd[i].name \in AddCommands =>
        /\ Len(GetCalls(i)) <= Len(SHEETS)
        /\ \A k \in 1..Len(GetCalls(i)) :
              GetCalls(i)[k].sheet = SHEETS[k] /\ GetCalls(i)[k].range = readRange(cmd[i].name)
        /\ Succeeded(i) => Len(GetCalls(i)) = Len(SHEETS)
        /\ \A s \in SheetSet : HasRead(i, s) =>
              /\ Matched(i, s) = <<>> => (StagedSeq(i, s) = <<>> /\ BatchCalls(i, s) = {})
              /\ \A w \in SeqSet(Matched(i, s)) : AddEntries(i, s, w) # {}
        /\ (Succeeded(i) /\ \A s \in SheetSet : Matched(i, s) = <<>>) =>
              /\ \A k \in 1..Len(calls[i]) : calls[i][k].op = "get"
              /\ Received(i) = <<Message("editReply", "notFound", Words(i), <<>>, <<>>)>>

\* Two targets, neither in any sheet: every sheet was read and the reply is
\* the not-found message
C16_Witness ==
    \E i \in Inv :
        /\ cmd[i].name \in AddCommands /\ Succeeded(i)
        /\ Len(Words(i)) = 2
        /\ \A s \in SheetSet : Matched(i, s) = <<>>
        /\ Len(calls[i]) = Len(SHEETS)
        /\ Received(i) = <<Message("editReply", "notFound", Words(i), <<>>, <<>>)>>

\* Invocation i is of a command that has no handler
IsUnknown(i) == cmd[i] # NoCmd /\ cmd[i].name \notin KnownCommands

\* C17 (unknown command): a command name other than add, officeradd,
\* tryoutadd and quotacheck is answered with the "Unknown command" reply and
\* makes no read and no write; an internal-error reply is sent only when the
\* sending of that reply was rejected.
C17_UnknownCommand ==
    \A i \in Inv : IsUnknown(i) =>
        LET sent == interaction[i].sent
        IN /\ calls[i] = <<>>
           /\ updates[i] = <<>>
           /\ store = startStore[i]
           /\ sent # <<>> => sent[1] \in {UnknownCommand, Failed(UnknownCommand)}
           /\ ErrorReplies(i) # {} => sent[1] = Failed(UnknownCommand)
           /\ pc[i] = "done" => sent # <<>>
           /\ (pc[i] = "done" /\ sent[1].ok) => sent = <<UnknownCommand>>

\* The command "ping" has been answered with "Unknown command"
C17_Witness ==
    \E i \in Inv :
        /\ IsUnknown(i) /\ pc[i] = "done"
        /\ interaction[i].sent = <<UnknownCommand>>

\* Cell values: absent, the two booleans, and texts
CheckedInputs ==
    {Undefined, Bool(TRUE), Bool(FALSE)}
    \cup {Str(t) : t \in {<<>>, sTRUE, sTrue, <<"T", "r", "u", "e">>, sFALSE,
                          <<"f", "a", "l", "s", "e">>, <<" ", "T", "R", "U", "E">>,
                          <<"1">>, <<"u", "n", "d", "e", "f", "i", "n", "e", "d">>}}

\* The cell values that count as checked: the boolean true, and TRUE in any
\* case
CheckedValues == {Bool(TRUE), Str(sTRUE), Str(sTrue), Str(<<"T", "r", "u", "e">>)}

\* The rows in which a quota check looks at the flags, with the columns of
\* the "passed" and "exempt" flags
FlagRows == [r \in (QuotaFirstRow..TopLastRow) |-> <<"J", "H">>]
            @@ [r \in BottomRows |-> <<"I", "G">>]

\* C18 (checked predicate): isChecked(v) is true if and only if v is the
\* boolean true or the upper-case form of v as a string is "TRUE"; it is
\* false for empty, false, "false" and absent cells.  In a quota check, an
\* identified row gets no F write exactly when one of its two flag cells is
\* TRUE in some case.
C18_CheckedPredicate ==
    /\ \A v \in CheckedInputs : isChecked(v) <=> v \in CheckedValues
    /\ \A i \in Inv : IsQuota(i) =>
          \A s \in SheetSet : StagingComplete(i, s) =>
              \A r \in DOMAIN FlagRows : Identified(i, s, r) =>
                  (FWrites(i, s, r) = {} <=>
                      \E k \in 1..2 : Ticked(TextAt(i, s, r, FlagRows[r][k])))

\* A quota check has looked at an identified row whose "passed" flag is
\* "true" in lower case, and staged no F write for it
C18_Witness ==
    \E i \in Inv : \E s \in SheetSet : \E r \in DOMAIN FlagRows :
        /\ IsQuota(i) /\ StagingComplete(i, s) /\ Identified(i, s, r)
        /\ TextAt(i, s, r, FlagRows[r][1]) = sTrue
        /\ ~Ticked(TextAt(i, s, r, FlagRows[r][2]))
        /\ FWrites(i, s, r) = {}

\* C19 (reply protocol): an invocation of a known command first defers the
\* reply, before any call to the store, and defers once; at most one final
\* text reaches the user, the summary when no error was raised and the
\* internal-error text otherwise, and it is the last message; an invocation
\* ends without a final text only when the sending of the final text was
\* rejected.
C19_ReplyProtocol ==
    \A i \in Inv : cmd[i].name \in KnownCommands =>
        LET sent == interaction[i].sent
        IN /\ sent # <<>> => sent[1].via = "deferReply"
           /\ calls[i] # <<>> => (sent # <<>> /\ sent[1] = Acknowledgment)
           /\ \A k \in 2..Len(sent) : sent[k].via # "deferReply"
           /\ Len(Received(i)) <= 1
           /\ Received(i) # <<>> =>
                 /\ pc[i] = "done"
                 /\ Received(i)[1] = sent[Len(sent)]
                 /\ Received(i)[1].kind \in SummaryKinds <=> ~ErrorRaised(i)
                 /\ Received(i)[1].kind = "internalError" <=> ErrorRaised(i)
           /\ (pc[i] = "done" /\ Received(i) = <<>>) =>
                 /\ Len(sent) > 1
                 /\ sent[Len(sent)] \in {Failed(InternalError("reply")),
                                         Failed(InternalError("editReply"))}

\* An add was acknowledged, read and wrote, and then completed the reply with
\* its summary
C19_Witness ==
    \E i \in Inv :
        /\ cmd[i].name = "add" /\ pc[i] = "done"
        /\ Len(calls[i]) > Len(SHEETS)
        /\ Len(interaction[i].sent) = 2
        /\ interaction[i].sent[1] = Acknowledgment
        /\ interaction[i].sent[2].ok /\ interaction[i].sent[2].kind = "added"

\* The calls cs are what a quota check may make from sheet k on, when its
\* next call for that sheet is the read of the top block ("top"), the read
\* of the bottom block ("bottom") or the write ("write")
RECURSIVE Conforms(_, _, _)
Conforms(cs, k, phase) ==
    IF cs = <<>> THEN TRUE
    ELSE IF k > Len(SHEETS) THEN FALSE
    ELSE CASE phase = "top" ->
                /\ [Head(cs) EXCEPT !.ok = TRUE] = GetCall(SHEETS[k], TopRange, TRUE)
                /\ Conforms(Tail(cs), k, "bottom")
           [] phase = "bottom" ->
                /\ [Head(cs) EXCEPT !.ok = TRUE] = GetCall(SHEETS[k], BottomRange, TRUE)
                /\ Conforms(Tail(cs), k, "write")
           [] OTHER ->
                IF Head(cs).op = "batchUpdate"
                THEN /\ Head(cs).sheet = SHEETS[k]
                     /\ Head(cs).data # <<>>
                     /\ Conforms(Tail(cs), k + 1, "top")
                ELSE Conforms(cs, k + 1, "top")

\* C20 (store-call ordering in a quota check): the sheets are taken in the
\* configured order; for each sheet the calls are the read of A7:J13, the
\* read of A19:I40 and then at most one batch write, all before the first
\* call of the next sheet; no call follows a rejected call; the summary is
\* sent only after the last sheet's calls.  A successful run makes two reads
\* per sheet and one write per sheet that has staged writes.
C20_CallOrdering ==
    \A i \in Inv : IsQuota(i) =>
        /\ Conforms(calls[i], 1, "top")
        /\ \A k \in 1..(Len(calls[i]) - 1) : calls[i][k].ok
        /\ (\E m \in SeqSet(interaction[i].sent) : m.kind = "quotaSummary") =>
              /\ Len(GetCalls(i)) = 2 * Len(SHEETS)
              /\ FailedCalls(i) = {}
              /\ pc[i] \in {"done", "catch"}
        /\ Succeeded(i) =>
              Len(calls[i]) - Len(GetCalls(i)) =
                  Cardinality({s \in SheetSet : ExpectedStaged(i, s) # <<>>})

\* A successful quota check over a sheet with staged writes and a sheet with
\* none
C20_Witness ==
    \E i \in Inv : \E s1 \in SheetSet : \E s2 \in SheetSet :
        /\ IsQuota(i) /\ Succeeded(i)
        /\ ExpectedStaged(i, s1) # <<>> /\ ExpectedStaged(i, s2) = <<>>
        /\ Len(calls[i]) = 2 * Len(SHEETS) + 1

\* The place of each entry of a summary list: the position of its sheet in
\* the configured list, and its row
Places(list) == [k \in 1..Len(list) |-> <<SheetIndex(list[k].sheet), list[k].row>>]

\* Places in configured sheet order and, within a sheet, in ascending row
\* order, none of them twice
InSheetRowOrder(q) ==
    \A k \in 1..(Len(q) - 1) :
        \/ q[k][1] < q[k + 1][1]
        \/ q[k][1] = q[k + 1][1] /\ q[k][2] < q[k + 1][2]

\* The places of the rows among `rows` for which an F write was staged
FStagedPlaces(i, rows) ==
    {<<SheetIndex(u.sheet), u.row>> :
        u \in {w \in AllStaged(i) : w.col = "F" /\ w.row \in rows}}

\* C21 (quota check summary): the top-increment list and the
\* bottom-increment list are each in configured sheet order and, within a
\* sheet, in ascending row order, and hold exactly the rows of their block
\* for which an F write was staged; the updated-sheets list holds, in
\* configured order, exactly the sheets whose batch write was accepted, and
\* in the summary that is delivered these are exactly the sheets for which
\* the handler stages at least one write.
C21_QuotaSummary ==
    \A i \in Inv : IsQuota(i) =>
        LET top == Places(summary[i].topIncrements)
            bottom == Places(summary[i].bottomIncrements)
            sheets == [k \in 1..Len(summary[i].sheetsUpdated) |->
                          SheetIndex(summary[i].sheetsUpdated[k])]
        IN /\ InSheetRowOrder(top)
           /\ SeqSet(top) = FStagedPlaces(i, TopRows)
           /\ InSheetRowOrder(bottom)
           /\ SeqSet(bottom) = FStagedPlaces(i, BottomRows)
           /\ \A k \in 1..(Len(sheets) - 1) : sheets[k] < sheets[k + 1]
           /\ SeqSet(summary[i].sheetsUpdated) =
                 {s \in SheetSet : \E k \in BatchCalls(i, s) : calls[i][k].ok}
           /\ Succeeded(i) =>
                 SeqSet(summary[i].sheetsUpdated) =
                     {s \in SheetSet : ExpectedStaged(i, s) # <<>>}

\* A delivered quota summary with two top rows of the second sheet in its
\* top list, the lower row first, and the first sheet, for which nothing is
\* staged, not in its updated-sheets list
C21_Witness ==
    \E i \in Inv :
        /\ IsQuota(i) /\ Succeeded(i)
        /\ Len(SHEETS) >= 2
        /\ summary[i].sheetsUpdated = <<SHEETS[2]>>
        /\ ExpectedStaged(i, SHEETS[1]) = <<>>
        /\ Len(summary[i].topIncrements) = 2
        /\ summary[i].topIncrements[1].sheet = SHEETS[2]
        /\ summary[i].topIncrements[2].sheet = SHEETS[2]
        /\ summary[i].topIncrements[1].row < summary[i].topIncrements[2].row

\* The position in the configured list of the sheet whose store call was
\* rejected
FailedSheet(i) == SheetIndex(calls[i][CHOOSE k \in FailedCalls(i) : TRUE].sheet)

\* The writes of the batch call for sheet s that the store accepted
AcceptedWrites(i, s) ==
    IF \E k \in BatchCalls(i, s) : calls[i][k].ok
    THEN calls[i][CHOOSE k \in BatchCalls(i, s) : calls[i][k].ok].data
    ELSE <<>>

\* A row of a quota-evaluated block that is identified and has neither of
\* its flags ticked when invocation i begins
Unmet(i, s, r) ==
    /\ Identified(i, s, r)
    /\ \/ /\ r \in QuotaFirstRow..TopLastRow
          /\ ~Ticked(TextAt(i, s, r, "J")) /\ ~Ticked(TextAt(i, s, r, "H"))
       \/ /\ r \in BottomRows
          /\ ~Ticked(TextAt(i, s, r, "I")) /\ ~Ticked(TextAt(i, s, r, "G"))

\* C22 (no rollback on failure): when an invocation ends after a store call
\* for the k-th configured sheet was rejected, every sheet before the k-th
\* holds the writes the handler staged for it, every sheet after the k-th
\* is as it was when the command arrived, and no summary reaches the user,
\* only the internal-error reply; and a quota check that then runs to its
\* end raises again every F that an earlier run had raised.
C22_NoRollback ==
    \A i \in Inv :
        /\ (pc[i] = "done" /\ FailedCalls(i) # {}) =>
              /\ \A s \in SheetSet :
                    /\ SheetIndex(s) < FailedSheet(i) =>
                          /\ AcceptedWrites(i, s) = ExpectedStaged(i, s)
                          /\ doneStore[i][s] =
                                ApplyUpdates(startStore[i], AcceptedWrites(i, s))[s]
                    /\ SheetIndex(s) > FailedSheet(i) =>
                          doneStore[i][s] = startStore[i][s]
              /\ \A m \in SeqSet(Received(i)) : m.kind = "internalError"
        /\ (IsQuota(i) /\ Succeeded(i)) =>
              \A s \in SheetSet : \A r \in TopRows \cup BottomRows :
                  (Unmet(i, s, r) /\ TextAt(i, s, r, "F") # CellAt(store0, s, r, COL.F))
                      => OneHigher(TextAt(i, s, r, "F"), EndText(i, s, r, "F"))

\* An invocation that ended with the internal-error reply after a call for
\* its second sheet was rejected, with the first sheet changed and the
\* last sheet, for which the handler has writes to stage, as it was
C22_Witness ==
    \E i \in Inv :
        /\ pc[i] = "done" /\ FailedCalls(i) # {}
        /\ FailedSheet(i) = 2
        /\ doneStore[i][SHEETS[1]] # startStore[i][SHEETS[1]]
        /\ doneStore[i][SHEETS[Len(SHEETS)]] = startStore[i][SHEETS[Len(SHEETS)]]
        /\ ExpectedStaged(i, SHEETS[Len(SHEETS)]) # <<>>
        /\ Received(i) = <<InternalError("editReply")>>

\* A quota check that ran to its end after one that had stopped at the
\* second sheet: an F of the first sheet ends two higher than at the outset
\* and an F of the second sheet is raised for the first time
C22_Rerun ==
    \E i \in Inv : \E r \in TopRows \cup BottomRows : \E r2 \in TopRows \cup BottomRows :
        /\ IsQuota(i) /\ Succeeded(i)
        /\ Unmet(i, SHEETS[1], r)
        /\ OneHigher(CellAt(store0, SHEETS[1], r, COL.F), TextAt(i, SHEETS[1], r, "F"))
        /\ OneHigher(TextAt(i, SHEETS[1], r, "F"), EndText(i, SHEETS[1], r, "F"))
        /\ Unmet(i, SHEETS[2], r2)
        /\ TextAt(i, SHEETS[2], r2, "F") = CellAt(store0, SHEETS[2], r2, COL.F)
        /\ EndText(i, SHEETS[2], r2, "F") # TextAt(i, SHEETS[2], r2, "F")

\* The writes the handler of command c stages for sheet s of store st
StagedOn(st, c, s) ==
    IF c.name = "quotacheck"
    THEN LET top == getValues(st, s, TopFirstRow, TopLastRow, COL.J)
             bottom == getValues(st, s, BottomFirstRow, BottomLastRow, COL.I)
         IN topBlockLoop(variant, s, top, 0).updates
            \o tryoutResetLoop(variant, s, top, TopFirstRow)
            \o bottomBlockLoop(variant, s, bottom, 0).updates
    ELSE LET range == readRange(c.name)
         IN wordsLoop(c.name, s, getValues(st, s, range[1], range[2], range[3]),
                      parseWords(c.user), c.n).updates

\* The store after command c is handled alone on store st from sheet k on,
\* with no call rejected
RECURSIVE RunAlone(_, _, _)
RunAlone(st, c, k) ==
    IF k > Len(SHEETS) THEN st
    ELSE RunAlone(ApplyUpdates(st, StagedOn(st, c, SHEETS[k])), c, k + 1)

\* The store after command c and then command d, one after the other
OneAfterTheOther(st, c, d) == RunAlone(RunAlone(st, c, 1), d, 1)

\* The counter cells the handler of command c reads and writes when it is
\* handled alone on store st
CounterCells(st, c) ==
    {<<u.sheet, u.row, u.col>> :
        u \in {w \in UNION {SeqSet(StagedOn(st, c, s)) : s \in SheetSet} : w.col # "B"}}

\* C23 (independence on disjoint cells): when two concurrent invocations
\* whose counter cells are disjoint (those they would touch when handled
\* alone, and those they did write) have both run to their end, the store
\* is as it is after running the two commands one after the other, in one
\* order or the other.
C23_DisjointCells ==
    \A i \in Inv : \A j \in Inv :
        (/\ i < j /\ Succeeded(i) /\ Succeeded(j)
         /\ CounterCells(store0, cmd[i]) \cap CounterCells(store0, cmd[j]) = {}
         /\ \A u \in AllStaged(i) : \A w \in AllStaged(j) :
               (u.col # "B" /\ w.col # "B")
                   => <<u.sheet, u.row, u.col>> # <<w.sheet, w.row, w.col>>)
            => \/ store = OneAfterTheOther(store0, cmd[i], cmd[j])
               \/ store = OneAfterTheOther(store0, cmd[j], cmd[i])

\* How many times the target list of invocation i names w
Occurrences(i, w) == Cardinality({k \in 1..Len(Words(i)) : Words(i)[k] = w})

\* The positions in the writes staged for sheet s of the writes to the cell
WritesAt(i, s, r, col) ==
    {k \in 1..Len(StagedSeq(i, s)) :
        StagedSeq(i, s)[k].row = r /\ StagedSeq(i, s)[k].col = col}

\* C24 (repeated targets): in add, officeradd and tryoutadd, when the target
\* list names an identifier several times and a sheet holds it, the batch
\* for the sheet holds that many writes to each counter cell of the matched
\* row, every one with the value the cell held when the sheet was read plus
\* the amount; the summary lists the row that many times; and when the
\* command has run to its end the cell holds that value: it rose by the
\* amount once.
C24_RepeatedTargets ==
    \A i \in Inv : cmd[i].name \in AddCommands =>
        \A s \in SheetSet : HasRead(i, s) =>
            \A w \in SeqSet(Words(i)) :
                LET r == FirstMatch(i, s, w)
                IN r # 0 =>
                     /\ EntryCount(summary[i].updatesSummary, s, r) = Occurrences(i, w)
                     /\ \A col \in CounterColumns(cmd[i].name) :
                           LET new == Num(CoerceInt(TextAt(i, s, r, col)) + cmd[i].n)
                           IN /\ Cardinality(WritesAt(i, s, r, col)) = Occurrences(i, w)
                              /\ \A k \in WritesAt(i, s, r, col) :
                                    StagedSeq(i, s)[k].value = new
                              /\ Succeeded(i) => EndText(i, s, r, col) = FormatNumber(new)

\* add of 5 to "Cm, Cm", with "Cm" in a row whose C is 10: two writes of 15
\* to C of the row were sent, the summary lists the row twice, and the cell
\* holds 15
C24_Witness ==
    \E i \in Inv : \E s \in SheetSet :
        LET r == FirstMatch(i, s, sCm)
        IN /\ cmd[i].name = "add" /\ cmd[i].n = 5 /\ Succeeded(i)
           /\ Words(i) = <<sCm, sCm>>
           /\ r # 0
           /\ TextAt(i, s, r, "C") = <<"1", "0">>
           /\ Cardinality(WritesAt(i, s, r, "C")) = 2
           /\ \A k \in WritesAt(i, s, r, "C") : StagedSeq(i, s)[k].value = Num(15)
           /\ EntryCount(summary[i].updatesSummary, s, r) = 2
           /\ EndText(i, s, r, "C") = <<"1", "5">>

=============================================================================
